---- MODULE Spec2Model ----
(***************************************************************************)
(* Model of the TypeSpec -> ElectroDB emitter.                             *)
(*                                                                         *)
(* The emitter is a pure, synchronous compiler pass: emitType maps a type  *)
(* of the model graph to an attribute descriptor, getValidationConstraints *)
(* resolves the facets of a property, buildValidationFunction synthesizes  *)
(* the `validate` predicate and emitAttribute composes the attribute.      *)
(*                                                                         *)
(* Representation                                                          *)
(*   - a JS object with optional keys is a TLA+ record whose DOMAIN is the *)
(*     set of keys that are present;  {...a, k: v}  is  [k |-> v] @@ a;    *)
(*   - a thrown error is the record [error |-> message];                   *)
(*   - the `type` of a descriptor is tagged: TName("number") is the string *)
(*     "number", TEnum(<<..>>) a list of strings, TRaw(<<..>>) a RawCode;  *)
(*   - text built by concatenation is a sequence of text fragments;        *)
(*   - a scalar is its derivation chain <<itself, base, ..., root>>.       *)
(***************************************************************************)
EXTENDS Integers, Sequences, FiniteSets, TLC

VARIABLES pc, inType, out, prop, attr, constraints, propertyName, validate,
          value, outcome,
          indexes, lastIndex,
          input, generated,
          program, cursor, entities, typescriptSource, files, emitError,
          graph, operation, frames

\* the state map of the @index decorator and its last application
indexVars == <<indexes, lastIndex>>
\* the argument and the result of the serializer
stringifyVars == <<input, generated>>
\* the annotated models, the schemas built so far and the output of $onEmit
emitVars == <<program, cursor, entities, typescriptSource, files, emitError>>

\* a model graph by reference, the operation that walks it, and its calls
walkVars == <<graph, operation, frames>>

vars == <<pc, inType, out, prop, attr, constraints, propertyName, validate,
          value, outcome, indexVars, stringifyVars, emitVars, walkVars>>

(***************************************************************************)
(* Bounds of the model.                                                    *)
(***************************************************************************)
MaxChain == 3
MaxMembers == 3
MaxVariants == 2
MaxProps == 2
MaxLen == 2
MaxNum == 2
MaxFacetLevels == 2

(***************************************************************************)
(* Values.                                                                 *)
(***************************************************************************)
Undefined == [t |-> "undefined", s |-> "", n |-> 0, b |-> FALSE]
Str(s) == [t |-> "string", s |-> s, n |-> 0, b |-> FALSE]
Num(n) == [t |-> "number", s |-> "", n |-> n, b |-> FALSE]
Bool(b) == [t |-> "boolean", s |-> "", n |-> 0, b |-> b]
Fn(s) == [t |-> "function", s |-> s, n |-> 0, b |-> FALSE]

Nil == [nil |-> TRUE]

\* the parts of the state a component does not use
IndexIdle == indexes = Nil /\ lastIndex = Nil
StringifyIdle == input = Nil /\ generated = Nil
WalkIdle == graph = Nil /\ operation = "" /\ frames = <<>>
EmitIdle ==
    /\ program = Nil /\ cursor = 0 /\ entities = Nil
    /\ typescriptSource = Nil /\ files = Nil /\ emitError = Nil
NoDecorators == [k \in {} |-> TRUE]

Throw(msg) == [error |-> msg]
IsThrow(r) == "error" \in DOMAIN r

TName(s) == [k |-> "name", v |-> <<s>>]
TEnum(items) == [k |-> "enum", v |-> items]
TRaw(code) == [k |-> "raw", v |-> code]

\* String(n) / `${n}` of a small non-negative integer
NumberToString(n) ==
    <<"0", "1", "2", "3", "4", "5", "6", "7", "8", "9">>[n + 1]

\* `${v}` of a string or a number
TemplateString(v) == IF v.t = "string" THEN v.s ELSE NumberToString(v.n)

\* a ?? b
Coalesce(a, b) == IF a.t = "undefined" THEN b ELSE a

RECURSIVE Join(_, _)
\* parts.join(sep) on a list of texts
Join(parts, sep) ==
    IF parts = <<>> THEN <<>>
    ELSE IF Len(parts) = 1 THEN parts[1]
    ELSE parts[1] \o <<sep>> \o Join(Tail(parts), sep)

\* obj[key] = val on an object kept as its list of entries in insertion order
ObjSet(obj, key, val) ==
    IF \E i \in DOMAIN obj : obj[i].name = key
    THEN [i \in DOMAIN obj |->
            IF obj[i].name = key THEN [name |-> key, attr |-> val] ELSE obj[i]]
    ELSE Append(obj, [name |-> key, attr |-> val])

(***************************************************************************)
(* The type graph handed over by the TypeSpec compiler.                    *)
(***************************************************************************)
NoType == [kind |-> "None"]
ScalarLevel(name, decorators) == [name |-> name, decorators |-> decorators]
Scalar(chain) == [kind |-> "Scalar", chain |-> chain]
ScalarNamed(names) ==
    Scalar([i \in 1..Len(names) |-> ScalarLevel(names[i], NoDecorators)])
Member(name, v) == [name |-> name, value |-> v]
Enum(members) == [kind |-> "Enum", members |-> members]
ArrayOf(elementType) ==
    [kind |-> "Model", name |-> "Array", indexer |-> [value |-> elementType],
     properties |-> <<>>, baseModel |-> NoType]
Record(name, properties, baseModel) ==
    [kind |-> "Model", name |-> name, indexer |-> Nil,
     properties |-> properties, baseModel |-> baseModel]
Union(variants) == [kind |-> "Union", variants |-> variants]
StringLiteral(s) == [kind |-> "String", value |-> Str(s)]
NumericLiteral(n) == [kind |-> "Number", value |-> Num(n)]
OtherKind(kind) == [kind |-> kind]

NoDefault == [valueKind |-> "None", value |-> Undefined,
              member |-> Member("", Undefined)]
StringValue(s) == [NoDefault EXCEPT !.valueKind = "StringValue", !.value = Str(s)]
NumericValue(n) == [NoDefault EXCEPT !.valueKind = "NumericValue", !.value = Num(n)]
BooleanValue(b) == [NoDefault EXCEPT !.valueKind = "BooleanValue", !.value = Bool(b)]
EnumValue(m) == [NoDefault EXCEPT !.valueKind = "EnumValue", !.member = m]
ObjectValue == [NoDefault EXCEPT !.valueKind = "ObjectValue"]

ModelProperty(name, type, optional, defaultValue, decorators) ==
    [name |-> name, type |-> type, optional |-> optional,
     defaultValue |-> defaultValue, decorators |-> decorators]

RECURSIVE walkPropertiesInherited(_)
\* the own properties, then those of the base models
walkPropertiesInherited(model) ==
    IF model.kind # "Model" THEN <<>>
    ELSE model.properties \o walkPropertiesInherited(model.baseModel)

(***************************************************************************)
(* extractDefaultValue                                                     *)
(***************************************************************************)
extractDefaultValue(v) ==
    CASE v.valueKind = "StringValue" -> v.value
      [] v.valueKind = "NumericValue" -> v.value
      [] v.valueKind = "BooleanValue" -> v.value
      [] v.valueKind = "EnumValue" -> Coalesce(v.member.value, Str(v.member.name))
      [] OTHER -> Undefined

(***************************************************************************)
(* Type mapper                                                             *)
(***************************************************************************)
NumericNames ==
    {"numeric", "integer", "float", "int64", "int32", "int16", "int8",
     "uint64", "uint32", "uint16", "uint8", "safeint", "float32", "float64",
     "decimal", "decimal128"}

emitIntrinsincScalar(type) ==
    CASE type.name = "boolean" -> TName(type.name)
      [] type.name = "bytes" -> Throw("bytes not supported")
      [] type.name \in NumericNames -> TName("number")
      [] OTHER -> TName("string")

RECURSIVE rootScalar(_, _)
\* while (baseType.baseScalar) baseType = baseType.baseScalar
rootScalar(chain, i) ==
    IF i < Len(chain) THEN rootScalar(chain, i + 1) ELSE chain[i]

\* faulty variant: maps the scalar's own name without walking to the root
emitScalar_NoWalk(type) ==
    LET t == emitIntrinsincScalar(type.chain[1])
    IN  IF IsThrow(t) THEN t ELSE [type |-> t]

emitScalar(type) ==
    LET t == emitIntrinsincScalar(rootScalar(type.chain, 1))
    IN  IF IsThrow(t) THEN t ELSE [type |-> t]

\* Array.from(members).map(([key, member]) => `${member.value ?? key}`)
enumItems(members) ==
    [i \in DOMAIN members |->
        TemplateString(Coalesce(members[i].value, Str(members[i].name)))]

RECURSIVE emitType(_), emitModelProperty(_), emitProperties(_, _),
          emitTypeToTypeScript(_), propertiesToTypeScript(_),
          variantsToTypeScript(_)

\* faulty variant: no special case for arrays of an enum
emitArrayModel_AlwaysList(type) ==
    IF type.indexer = Nil THEN Throw("TypeError")
    ELSE LET items == emitType(type.indexer.value)
         IN  IF IsThrow(items) THEN items
             ELSE [type |-> TName("list"), items |-> items]

emitArrayModel(type) ==
    IF type.indexer = Nil THEN Throw("TypeError")
    ELSE LET elementType == type.indexer.value
         IN  IF elementType.kind = "Enum"
             THEN [type |-> TName("set"), items |-> enumItems(elementType.members)]
             ELSE LET items == emitType(elementType)
                  IN  IF IsThrow(items) THEN items
                      ELSE [type |-> TName("list"), items |-> items]

\* the loop of emitRecordModel over the remaining properties
emitProperties(props, properties) ==
    IF props = <<>> THEN [type |-> TName("map"), properties |-> properties]
    ELSE LET a == emitModelProperty(Head(props))
         IN  IF IsThrow(a) THEN a
             ELSE emitProperties(Tail(props),
                                 ObjSet(properties, Head(props).name, a))

emitRecordModel(type) == emitProperties(walkPropertiesInherited(type), <<>>)

emitModel(type) ==
    IF type.name = "Array" THEN emitArrayModel(type) ELSE emitRecordModel(type)

\* faulty variant: uses the member names and ignores the literal values
emitEnumModel_NamesOnly(type) ==
    [type |-> TEnum([i \in DOMAIN type.members |-> type.members[i].name])]

emitEnumModel(type) == [type |-> TEnum(enumItems(type.members))]

scalarToTypeScript(type) ==
    LET baseType == rootScalar(type.chain, 1)
    IN  CASE baseType.name = "boolean" -> <<"boolean">>
          [] baseType.name \in NumericNames -> <<"number">>
          [] OTHER -> <<"string">>

propertiesToTypeScript(props) ==
    [i \in DOMAIN props |->
        <<props[i].name>> \o (IF props[i].optional THEN <<"?">> ELSE <<>>)
        \o <<": ">> \o emitTypeToTypeScript(props[i].type)]

variantsToTypeScript(variants) ==
    [i \in DOMAIN variants |-> emitTypeToTypeScript(variants[i])]

emitTypeToTypeScript(type) ==
    CASE type.kind = "Scalar" -> scalarToTypeScript(type)
      [] type.kind = "Model" ->
            IF type.name = "Array"
            THEN IF type.indexer = Nil THEN <<"TypeError">>
                 ELSE emitTypeToTypeScript(type.indexer.value) \o <<"[]">>
            ELSE <<"{ ">>
                 \o Join(propertiesToTypeScript(walkPropertiesInherited(type)), "; ")
                 \o <<" }">>
      [] type.kind = "Enum" ->
            Join([i \in DOMAIN type.members |->
                    <<"\"", enumItems(type.members)[i], "\"">>], " | ")
      [] type.kind = "Union" ->
            Join(variantsToTypeScript(type.variants), " | ")
      [] OTHER -> <<"any">>

RECURSIVE literalsOf(_, _)
\* the loop of isLiteralUnion; null is [isNull |-> TRUE]
literalsOf(variants, literals) ==
    IF variants = <<>> THEN [isNull |-> FALSE, literals |-> literals]
    ELSE LET v == Head(variants)
         IN  IF v.kind = "String"
             THEN literalsOf(Tail(variants), Append(literals, v.value.s))
             ELSE IF v.kind = "Number"
             THEN literalsOf(Tail(variants),
                             Append(literals, NumberToString(v.value.n)))
             ELSE [isNull |-> TRUE, literals |-> <<>>]

\* faulty variant: skips the variants that are not literals
isLiteralUnion_SkipOthers(type) ==
    literalsOf(SelectSeq(type.variants,
                         LAMBDA v : v.kind \in {"String", "Number"}), <<>>)

isLiteralUnion(type) == literalsOf(type.variants, <<>>)

emitUnion(type) ==
    LET literals == isLiteralUnion(type)
    IN  IF ~literals.isNull
        THEN [type |-> TEnum(literals.literals)]
        ELSE [type |-> TRaw(<<"CustomAttributeType<">>
                            \o emitTypeToTypeScript(type)
                            \o <<">(\"any\")">>)]

emitType(type) ==
    CASE type.kind = "Scalar" -> emitScalar(type)
      [] type.kind = "Model" -> emitModel(type)
      [] type.kind = "Enum" -> emitEnumModel(type)
      [] type.kind = "Union" -> emitUnion(type)
      [] OTHER -> Throw("Type kind is currently not supported!")

\* faulty variant of emitModelProperty: the label of the property is attached
emitModelProperty_Labelled(p) ==
    LET t == emitType(p.type)
    IN  IF IsThrow(t) THEN t
        ELSE LET a == [required |-> ~p.optional] @@ t
                 b == IF "label" \in DOMAIN p.decorators
                      THEN [label |-> p.decorators.label] @@ a
                      ELSE a
                 d == extractDefaultValue(p.defaultValue)
             IN  IF p.defaultValue.valueKind # "None" /\ d.t # "undefined"
                 THEN [default |-> d] @@ b
                 ELSE b

emitModelProperty(p) ==
    LET t == emitType(p.type)
    IN  IF IsThrow(t) THEN t
        ELSE LET a == [required |-> ~p.optional] @@ t
                 d == extractDefaultValue(p.defaultValue)
             IN  IF p.defaultValue.valueKind # "None" /\ d.t # "undefined"
                 THEN [default |-> d] @@ a
                 ELSE a

(***************************************************************************)
(* Bounded universe of types.                                              *)
(***************************************************************************)
SeqsUpTo(S, n) == UNION {[1..k -> S] : k \in 0..n}
Distinct(s) == \A i, j \in DOMAIN s : s[i].name = s[j].name => i = j

RootNames ==
    NumericNames \cup {"boolean", "bytes", "string", "url", "utcDateTime",
                       "offsetDateTime", "plainDate", "plainTime", "UUID"}
DerivedNames == {"UUID", "boolean", "bytes", "int32"}

ScalarTypes ==
    {ScalarNamed(d \o <<r>>) :
        d \in SeqsUpTo(DerivedNames, MaxChain - 1), r \in RootNames}

MemberPool ==
    {Member("LOW", Undefined), Member("MEDIUM", Str("02")),
     Member("HIGH", Num(3)), Member("NONE", Str(""))}
EnumTypes == {Enum(m) : m \in {s \in SeqsUpTo(MemberPool, MaxMembers) : Distinct(s)}}

CountryCode == Enum(<<Member("NL", Undefined), Member("US", Undefined)>>)
StringType == ScalarNamed(<<"string">>)
Int32Type == ScalarNamed(<<"int32", "int64", "integer", "numeric">>)
BytesType == ScalarNamed(<<"bytes">>)

String64 ==
    Scalar(<<ScalarLevel("String64", [maxLength |-> 64]),
             ScalarLevel("string", NoDecorators)>>)

VariantPool ==
    {StringLiteral("home"), StringLiteral("work"), NumericLiteral(1),
     StringType, Int32Type, CountryCode, OtherKind("Boolean"),
     OtherKind("Intrinsic")}
UnionTypes == {Union(v) : v \in SeqsUpTo(VariantPool, MaxVariants)}

PropertyPool ==
    {ModelProperty("street", StringType, FALSE, NoDefault, NoDecorators),
     ModelProperty("country", CountryCode, FALSE,
                   EnumValue(Member("NL", Undefined)), NoDecorators),
     ModelProperty("kind", Union(<<StringLiteral("home"), StringLiteral("work")>>),
                   TRUE, StringValue("home"), NoDecorators),
     ModelProperty("count", Int32Type, TRUE, NumericValue(0), NoDecorators),
     ModelProperty("raw", BytesType, FALSE, NoDefault, NoDecorators),
     ModelProperty("zip", String64, FALSE, NoDefault,
                   [label |-> "z", minLength |-> 1]),
     ModelProperty("since", Int32Type, TRUE, NoDefault,
                   [createdAt |-> "cat", updatedAt |-> "uat"])}
BaseModel ==
    Record("Base",
           <<ModelProperty("id", StringType, FALSE, NoDefault, NoDecorators)>>,
           NoType)
RecordTypes ==
    {Record("Address", p, b) :
        p \in {s \in SeqsUpTo(PropertyPool, MaxProps) : Distinct(s)},
        b \in {NoType, BaseModel}}
    \cup {Record("Array", <<>>, NoType)}

OtherTypes ==
    {StringLiteral("home"), NumericLiteral(1), OtherKind("Boolean"),
     OtherKind("Intrinsic"), OtherKind("Tuple")}

ElementTypes ==
    {StringType, Int32Type, BytesType, CountryCode, OtherKind("Intrinsic")}
    \cup EnumTypes \cup UnionTypes \cup RecordTypes
ArrayTypes ==
    LET inner == {ArrayOf(e) : e \in ElementTypes}
    IN  inner \cup {ArrayOf(a) : a \in inner}

Types ==
    ScalarTypes \cup EnumTypes \cup UnionTypes \cup RecordTypes
    \cup ArrayTypes \cup OtherTypes

(***************************************************************************)
(* Specification of the type mapper: emitType applied to any type.         *)
(***************************************************************************)
Idle ==
    /\ prop = Nil /\ attr = Nil /\ constraints = Nil /\ propertyName = ""
    /\ validate = Nil /\ value = Nil /\ outcome = Nil

InitMap ==
    /\ pc = "start"
    /\ inType \in Types
    /\ out = Nil
    /\ Idle
    /\ IndexIdle /\ StringifyIdle /\ EmitIdle /\ WalkIdle

EmitType ==
    /\ pc = "start"
    /\ inType # Nil
    /\ out' = emitType(inType)
    /\ pc' = "mapped"
    /\ UNCHANGED <<inType, prop, attr, constraints, propertyName, validate,
                   value, outcome>>
    /\ UNCHANGED <<indexVars, stringifyVars, emitVars, walkVars>>

NextMap == EmitType

SpecMap == InitMap /\ [][NextMap]_vars

(***************************************************************************)
(* Run-time values handed to a `validate` predicate.                       *)
(*   text      the characters of a string                                  *)
(*   validDate whether new Date(text) is a valid date (engine-defined for  *)
(*             texts that are not ISO dates)                               *)
(*   cls/twice a number: finite with value twice/2, NaN or +-Infinity      *)
(***************************************************************************)
StringInput(text, validDate) ==
    [typeof |-> "string", text |-> text, validDate |-> validDate,
     cls |-> "", twice |-> 0]
NumberInput(cls, twice) ==
    [typeof |-> "number", text |-> <<>>, validDate |-> FALSE,
     cls |-> cls, twice |-> twice]
OtherInput(typeof) ==
    [typeof |-> typeof, text |-> <<>>, validDate |-> FALSE,
     cls |-> "", twice |-> 0]

IsDigit(c) == c \in {"0", "1", "2", "3", "4", "5", "6", "7", "8", "9"}
Digits(text, from, to) ==
    /\ to <= Len(text)
    /\ \A i \in from..to : IsDigit(text[i])
CharAt(text, i, c) == i <= Len(text) /\ text[i] = c

\* /^\d{4}-\d{2}-\d{2}$/.test(text)
TestPlainDate(text) ==
    /\ Len(text) = 10
    /\ Digits(text, 1, 4) /\ CharAt(text, 5, "-")
    /\ Digits(text, 6, 7) /\ CharAt(text, 8, "-")
    /\ Digits(text, 9, 10)

\* /^\d{2}:\d{2}(:\d{2})?(\.\d+)?$/.test(text)
TestPlainTime(text) ==
    /\ Digits(text, 1, 2) /\ CharAt(text, 3, ":") /\ Digits(text, 4, 5)
    /\ \E secs \in {0, 3} :
          /\ secs = 3 => CharAt(text, 6, ":") /\ Digits(text, 7, 8)
          /\ \/ Len(text) = 5 + secs
             \/ /\ CharAt(text, 6 + secs, ".")
                /\ Len(text) >= 7 + secs
                /\ Digits(text, 7 + secs, Len(text))

\* the patterns of the model, as the characters of the @pattern argument
DigitsPattern == <<"^", "\\", "d", "+", "$">>
LowerPattern == <<"^", "a", "+", "$">>

\* the value of the string literal "<chars>" in evaluated source: a backslash
\* escapes the character after it
RECURSIVE literalValue(_)
literalValue(chars) ==
    IF chars = <<>> THEN <<>>
    ELSE IF Head(chars) = "\\" /\ Len(chars) >= 2
    THEN <<chars[2]>> \o literalValue(Tail(Tail(chars)))
    ELSE <<Head(chars)>> \o literalValue(Tail(chars))

\* pattern.replace(/\\/g, "\\\\")
RECURSIVE escapePattern(_)
escapePattern(chars) ==
    IF chars = <<>> THEN <<>>
    ELSE IF Head(chars) = "\\" THEN <<"\\", "\\">> \o escapePattern(Tail(chars))
    ELSE <<Head(chars)>> \o escapePattern(Tail(chars))

\* new RegExp(source).test(text) for the regular expressions of the model
RegExpTest(source, text) ==
    CASE source = DigitsPattern ->
            Len(text) >= 1 /\ \A i \in DOMAIN text : IsDigit(text[i])
      [] source = LowerPattern ->
            Len(text) >= 1 /\ \A i \in DOMAIN text : text[i] = "a"
      [] source = <<"^", "d", "+", "$">> ->
            Len(text) >= 1 /\ \A i \in DOMAIN text : text[i] = "d"
      [] OTHER -> TRUE

Lt(v, n) ==
    \/ v.cls = "finite" /\ v.twice < 2 * n
    \/ v.cls = "-Infinity"
Gt(v, n) ==
    \/ v.cls = "finite" /\ v.twice > 2 * n
    \/ v.cls = "Infinity"
NumberIsInteger(v) == v.cls = "finite" /\ v.twice % 2 = 0
NumberIsFinite(v) == v.cls = "finite"

(***************************************************************************)
(* buildValidationFunction                                                 *)
(*   A check is one `if (...) return "<message>"` statement: the condition *)
(*   it tests (check, with its argument n or source) and what it does when *)
(*   the condition holds (act: "return" the message, or "throw" an Error   *)
(*   carrying it).                                                         *)
(***************************************************************************)
Message(name, text, n, s) == [name |-> name, text |-> text, n |-> n, s |-> s]
NoMessage == Message("", "", 0, <<>>)
Check(check, n, source, message) ==
    [check |-> check, n |-> n, source |-> source, act |-> "return",
     message |-> message]

Has(c, key) == key \in DOMAIN c

lengthChecks(c, name) ==
    (IF Has(c, "minLength")
     THEN <<Check("minLength", c.minLength, <<>>,
                  Message(name, "must be at least N characters", c.minLength, <<>>))>>
     ELSE <<>>)
    \o
    (IF Has(c, "maxLength")
     THEN <<Check("maxLength", c.maxLength, <<>>,
                  Message(name, "must be at most N characters", c.maxLength, <<>>))>>
     ELSE <<>>)

valueChecks(c, name) ==
    (IF Has(c, "minValue")
     THEN <<Check("minValue", c.minValue, <<>>,
                  Message(name, "must be at least N", c.minValue, <<>>))>>
     ELSE <<>>)
    \o
    (IF Has(c, "maxValue")
     THEN <<Check("maxValue", c.maxValue, <<>>,
                  Message(name, "must be at most N", c.maxValue, <<>>))>>
     ELSE <<>>)

numberChecks(c, name) ==
    (IF Has(c, "isInteger") /\ c.isInteger
     THEN <<Check("isInteger", 0, <<>>,
                  Message(name, "must be an integer", 0, <<>>))>>
     ELSE <<>>)
    \o
    (IF Has(c, "isFloat") /\ c.isFloat
     THEN <<Check("isFloat", 0, <<>>,
                  Message(name, "must be a finite number", 0, <<>>))>>
     ELSE <<>>)

patternChecks(c, name) ==
    IF Has(c, "pattern") /\ c.pattern # <<>>
    THEN LET escapedPattern == escapePattern(c.pattern)
         IN  <<Check("pattern", 0, literalValue(escapedPattern),
                     Message(name, "must match pattern P", 0,
                             literalValue(escapedPattern)))>>
    ELSE <<>>

dateTimeChecks(c, name) ==
    IF Has(c, "isDateTime") /\ c.isDateTime /\ Has(c, "dateTimeType")
    THEN CASE c.dateTimeType = "utcDateTime" ->
                <<Check("utcDateTime", 0, <<>>,
                        Message(name, "must be a valid UTC date-time string", 0, <<>>))>>
           [] c.dateTimeType = "offsetDateTime" ->
                <<Check("offsetDateTime", 0, <<>>,
                        Message(name, "must be a valid offset date-time string", 0, <<>>))>>
           [] c.dateTimeType = "plainDate" ->
                <<Check("plainDate", 0, <<>>,
                        Message(name, "must be a valid date (YYYY-MM-DD)", 0, <<>>))>>
           [] c.dateTimeType = "plainTime" ->
                <<Check("plainTime", 0, <<>>,
                        Message(name, "must be a valid time (HH:MM:SS)", 0, <<>>))>>
           [] OTHER -> <<>>
    ELSE <<>>

\* checks.map((check) => check.replace(/return "([^"]+)"/, 'throw new Error("$1")'))
\* faulty variant: the checks keep returning their message
throwingChecks_Identity(checks) == checks

throwingChecks(checks) ==
    [i \in DOMAIN checks |->
        IF checks[i].act = "return" /\ checks[i].message # NoMessage
        THEN [checks[i] EXCEPT !.act = "throw"]
        ELSE checks[i]]

NoFunction == [defined |-> FALSE, body |-> <<>>]

\* faulty variant: the pattern check comes first
buildValidationFunction_PatternFirst(c, name) ==
    LET checks == patternChecks(c, name) \o lengthChecks(c, name)
                  \o valueChecks(c, name) \o numberChecks(c, name)
                  \o dateTimeChecks(c, name)
    IN  IF Len(checks) = 0 THEN NoFunction
        ELSE [defined |-> TRUE, body |-> throwingChecks(checks)]

\* faulty variant: a predicate is returned even when there is no check
buildValidationFunction_Always(c, name) ==
    LET checks == lengthChecks(c, name) \o valueChecks(c, name)
                  \o numberChecks(c, name) \o patternChecks(c, name)
                  \o dateTimeChecks(c, name)
    IN  [defined |-> TRUE, body |-> throwingChecks(checks)]

buildValidationFunction(c, name) ==
    LET checks == lengthChecks(c, name) \o valueChecks(c, name)
                  \o numberChecks(c, name) \o patternChecks(c, name)
                  \o dateTimeChecks(c, name)
    IN  IF Len(checks) = 0 THEN NoFunction
        ELSE [defined |-> TRUE, body |-> throwingChecks(checks)]

(***************************************************************************)
(* Evaluation of a synthesized predicate on a value.                       *)
(***************************************************************************)
\* faulty variant: the length and value bounds are exclusive
Violates_Exclusive(c, v) ==
    CASE c.check = "minLength" -> v.typeof = "string" /\ Len(v.text) <= c.n
      [] c.check = "maxLength" -> v.typeof = "string" /\ Len(v.text) >= c.n
      [] c.check = "minValue" ->
            v.typeof = "number" /\ (Lt(v, c.n) \/ (v.cls = "finite" /\ v.twice = 2 * c.n))
      [] c.check = "maxValue" ->
            v.typeof = "number" /\ (Gt(v, c.n) \/ (v.cls = "finite" /\ v.twice = 2 * c.n))
      [] c.check = "isInteger" -> v.typeof = "number" /\ ~NumberIsInteger(v)
      [] c.check = "isFloat" -> v.typeof = "number" /\ ~NumberIsFinite(v)
      [] c.check = "pattern" ->
            v.typeof = "string" /\ ~RegExpTest(c.source, v.text)
      [] c.check \in {"utcDateTime", "offsetDateTime"} ->
            v.typeof = "string" /\ ~v.validDate
      [] c.check = "plainDate" -> v.typeof = "string" /\ ~TestPlainDate(v.text)
      [] c.check = "plainTime" -> v.typeof = "string" /\ ~TestPlainTime(v.text)
      [] OTHER -> FALSE

\* the condition of the `if` of one check
Violates(c, v) ==
    CASE c.check = "minLength" -> v.typeof = "string" /\ Len(v.text) < c.n
      [] c.check = "maxLength" -> v.typeof = "string" /\ Len(v.text) > c.n
      [] c.check = "minValue" -> v.typeof = "number" /\ Lt(v, c.n)
      [] c.check = "maxValue" -> v.typeof = "number" /\ Gt(v, c.n)
      [] c.check = "isInteger" -> v.typeof = "number" /\ ~NumberIsInteger(v)
      [] c.check = "isFloat" -> v.typeof = "number" /\ ~NumberIsFinite(v)
      [] c.check = "pattern" ->
            v.typeof = "string" /\ ~RegExpTest(c.source, v.text)
      [] c.check \in {"utcDateTime", "offsetDateTime"} ->
            v.typeof = "string" /\ ~v.validDate
      [] c.check = "plainDate" -> v.typeof = "string" /\ ~TestPlainDate(v.text)
      [] c.check = "plainTime" -> v.typeof = "string" /\ ~TestPlainTime(v.text)
      [] OTHER -> FALSE

Outcome(kind, result, message) ==
    [kind |-> kind, result |-> result, message |-> message]

RECURSIVE runChecks(_, _)
\* (value) => { <body>; return true; }
runChecks(body, v) ==
    IF body = <<>> THEN Outcome("return", "true", NoMessage)
    ELSE IF Violates(Head(body), v)
    THEN IF Head(body).act = "throw"
         THEN Outcome("throw", "Error", Head(body).message)
         ELSE Outcome("return", "string", Head(body).message)
    ELSE runChecks(Tail(body), v)

(***************************************************************************)
(* Bounded universe of constraint sets and run-time values.                *)
(***************************************************************************)
UuidLength == 25

Repeat(c, n) == [i \in 1..n |-> c]

ShortTexts == UNION {[1..k -> {"a", "1"}] : k \in 0..MaxLen}
IsoTexts ==
    {<<"2", "0", "2", "4", "-", "0", "1", "-", "1", "5">>,
     <<"2", "0", "2", "4", "-", "0", "1", "-", "1", "5", "T",
       "1", "0", ":", "3", "0", ":", "0", "0", "Z">>}
OtherTexts ==
    {<<"t", "o", "o", "-", "s", "h", "o", "r", "t">>,
     Repeat("1", UuidLength), Repeat("1", UuidLength + 1),
     <<"9", "9", "9", "9", "-", "9", "9", "-", "9", "9">>,
     <<"1", "0", ":", "3", "0">>,
     <<"1", "0", ":", "3", "0", ":", "0", "0">>,
     <<"1", "0", ":", "3", "0", ":", "0", "0", ".", "1", "2", "3">>,
     <<"1", "0", ":", "3", "0", ".", "5">>,
     <<"1", ":", "3", "0">>,
     <<"1", "0", ":", "3", "0", ":", "0", "0", ".">>}

StringInputs ==
    {StringInput(t, TRUE) : t \in IsoTexts}
    \cup {StringInput(<<>>, FALSE)}
    \cup {StringInput(t, b) : t \in (ShortTexts \ {<<>>}) \cup OtherTexts,
                              b \in BOOLEAN}
NumberInputs ==
    {NumberInput("finite", n) : n \in (-2)..(2 * MaxNum + 1)}
    \cup {NumberInput(c, 0) : c \in {"NaN", "Infinity", "-Infinity"}}
RuntimeValues ==
    StringInputs \cup NumberInputs
    \cup {OtherInput("boolean"), OtherInput("undefined"), OtherInput("object")}

Choice(key, values) ==
    {NoDecorators} \cup {[k \in {key} |-> v] : v \in values}
DateTimeNames == {"utcDateTime", "offsetDateTime", "plainDate", "plainTime"}

ConstraintSets ==
    {a @@ b @@ c @@ d @@ e @@ f @@ g @@ h @@ i :
        a \in Choice("minLength", {MaxLen, UuidLength}),
        b \in Choice("maxLength", {1, UuidLength}),
        c \in Choice("minValue", {MaxNum}),
        d \in Choice("maxValue", {0}),
        e \in Choice("isInteger", {TRUE}),
        f \in Choice("isFloat", {TRUE}),
        g \in Choice("pattern", {<<>>, DigitsPattern}),
        h \in {NoDecorators}
              \cup {[isDateTime |-> TRUE, dateTimeType |-> n] : n \in DateTimeNames},
        i \in {NoDecorators, [format |-> "uuid", enumValues |-> <<"LOW">>]}}

(***************************************************************************)
(* Specification of the validator: a predicate is synthesized from any     *)
(* constraint set and called on any value.                                 *)
(***************************************************************************)
InitValidate ==
    /\ pc = "start"
    /\ constraints \in ConstraintSets
    /\ propertyName = "pk"
    /\ validate = Nil /\ value = Nil /\ outcome = Nil
    /\ inType = Nil /\ out = Nil /\ prop = Nil /\ attr = Nil
    /\ IndexIdle /\ StringifyIdle /\ EmitIdle /\ WalkIdle

BuildValidationFunction ==
    /\ pc = "start"
    /\ constraints # Nil
    /\ validate' = buildValidationFunction(constraints, propertyName)
    /\ pc' = "built"
    /\ UNCHANGED <<inType, out, prop, attr, constraints, propertyName, value,
                   outcome>>
    /\ UNCHANGED <<indexVars, stringifyVars, emitVars, walkVars>>

\* the generated attribute's validate(value) is called at run time
CallValidate ==
    /\ pc = "built"
    /\ validate.defined
    /\ \E v \in RuntimeValues :
          /\ value' = v
          /\ outcome' = runChecks(validate.body, v)
    /\ pc' = "called"
    /\ UNCHANGED <<inType, out, prop, attr, constraints, propertyName, validate>>
    /\ UNCHANGED <<indexVars, stringifyVars, emitVars, walkVars>>

NextValidate == BuildValidationFunction \/ CallValidate

SpecValidate == InitValidate /\ [][NextValidate]_vars

(***************************************************************************)
(* getValidationConstraints                                                *)
(*   getMinLength(program, target) and the like read the facet a decorator *)
(*   stored for the target: target.decorators holds what was stored.       *)
(***************************************************************************)
FacetKeys ==
    {"minLength", "maxLength", "minValue", "maxValue", "pattern", "format"}

\* the facets declared on the target itself, undefined ones left out
declaredFacets(target) ==
    [k \in (DOMAIN target.decorators) \cap FacetKeys |-> target.decorators[k]]

RECURSIVE scalarFacets_RootWins(_, _, _)
\* faulty variant: a facet found further towards the root overrides
scalarFacets_RootWins(chain, i, c) ==
    IF i > Len(chain) THEN c
    ELSE scalarFacets_RootWins(chain, i + 1, declaredFacets(chain[i]) @@ c)

RECURSIVE scalarFacets(_, _, _)
\* while (scalarType) { set each facet that is not already set; go to base }
scalarFacets(chain, i, c) ==
    IF i > Len(chain) THEN c
    ELSE scalarFacets(chain, i + 1, c @@ declaredFacets(chain[i]))

IntegerTypes ==
    {"integer", "int64", "int32", "int16", "int8", "uint64", "uint32",
     "uint16", "uint8", "safeint"}
FloatTypes == {"float", "float32", "float64", "decimal", "decimal128"}
DateTimeTypes == {"utcDateTime", "offsetDateTime", "plainDate", "plainTime"}

isIntegerType(type) == \E i \in DOMAIN type.chain : type.chain[i].name \in IntegerTypes
isFloatType(type) == \E i \in DOMAIN type.chain : type.chain[i].name \in FloatTypes
isDateTimeType(type) == \E i \in DOMAIN type.chain : type.chain[i].name \in DateTimeTypes

RECURSIVE baseScalarName(_, _)
baseScalarName(chain, i) ==
    IF i > Len(chain) THEN chain[1].name
    ELSE IF chain[i].name \in DateTimeTypes THEN chain[i].name
    ELSE baseScalarName(chain, i + 1)
getBaseScalarName(type) == baseScalarName(type.chain, 1)

getValidationConstraints(p) ==
    LET own == declaredFacets(p)
    IN  CASE p.type.kind = "Scalar" ->
                (IF isDateTimeType(p.type)
                 THEN [isDateTime |-> TRUE,
                       dateTimeType |-> getBaseScalarName(p.type)]
                 ELSE NoDecorators)
                @@ (IF isIntegerType(p.type) THEN [isInteger |-> TRUE]
                    ELSE IF isFloatType(p.type) THEN [isFloat |-> TRUE]
                    ELSE NoDecorators)
                @@ scalarFacets(p.type.chain, 1, own)
          [] p.type.kind = "Enum" ->
                [enumValues |-> enumItems(p.type.members)] @@ own
          [] p.type.kind = "Union" ->
                LET literals == isLiteralUnion(p.type)
                IN  IF ~literals.isNull
                    THEN [enumValues |-> literals.literals] @@ own
                    ELSE own
          [] OTHER -> own

(***************************************************************************)
(* emitAttribute                                                           *)
(***************************************************************************)
\* ctx.program.stateMap(key).has(p) / .get(p)
stateMapHas(key, p) == key \in DOMAIN p.decorators
getLabel(p) == IF stateMapHas("label", p) THEN p.decorators.label ELSE ""

DateNow == Fn("() => Date.now()")

\* faulty variant: an update timestamp keeps the property's optional flag
emitAttribute_OptionalTimestamp(p) ==
    LET type == emitType(p.type)
    IN  IF IsThrow(type) THEN type
        ELSE IF stateMapHas("updatedAt", p)
        THEN IF type.type # TName("number")
             THEN Throw("createdAt must be a number")
             ELSE [type |-> TName("number"), watch |-> "*",
                   required |-> ~p.optional,
                   default |-> DateNow, set |-> DateNow] @@ type
        ELSE [required |-> ~p.optional] @@ type

\* faulty variant: a creation timestamp is not marked read-only
emitAttribute_NoReadOnly(p) ==
    LET type == emitType(p.type)
    IN  IF IsThrow(type) THEN type
        ELSE IF stateMapHas("createdAt", p) /\ ~stateMapHas("updatedAt", p)
        THEN IF type.type # TName("number")
             THEN Throw("createdAt must be a number")
             ELSE [type |-> TName("number"), required |-> TRUE,
                   default |-> DateNow, set |-> DateNow] @@ type
        ELSE [required |-> ~p.optional] @@ type

\* faulty variant: a falsy default value is dropped
emitAttribute_TruthyDefault(p) ==
    LET type == emitType(p.type)
        defaultValue == extractDefaultValue(p.defaultValue)
    IN  IF IsThrow(type) THEN type
        ELSE (IF p.defaultValue.valueKind # "None"
                 /\ defaultValue.t # "undefined"
                 /\ defaultValue \notin {Str(""), Num(0), Bool(FALSE)}
              THEN [default |-> defaultValue] ELSE NoDecorators)
             @@ [required |-> ~p.optional]
             @@ type

\* faulty variant of emitAttribute: the creation marker is looked at first
emitAttribute_CreatedFirst(p) ==
    LET type == emitType(p.type)
    IN  IF IsThrow(type) THEN type
        ELSE IF ~stateMapHas("createdAt", p) /\ ~stateMapHas("updatedAt", p)
        THEN [required |-> ~p.optional] @@ type
        ELSE IF type.type # TName("number")
        THEN Throw("createdAt must be a number")
        ELSE IF stateMapHas("createdAt", p)
        THEN [type |-> TName("number"), readOnly |-> TRUE,
              required |-> TRUE, default |-> DateNow, set |-> DateNow] @@ type
        ELSE [type |-> TName("number"), watch |-> "*", required |-> TRUE,
              default |-> DateNow, set |-> DateNow] @@ type

emitAttribute(p) ==
    LET type == emitType(p.type)
    IN  IF IsThrow(type) THEN type
        ELSE IF stateMapHas("updatedAt", p)
        THEN IF type.type # TName("number")
             THEN Throw("createdAt must be a number")
             ELSE [type |-> TName("number"), watch |-> "*", required |-> TRUE,
                   default |-> DateNow, set |-> DateNow] @@ type
        ELSE IF stateMapHas("createdAt", p)
        THEN IF type.type # TName("number")
             THEN Throw("createdAt must be a number")
             ELSE [type |-> TName("number"), readOnly |-> TRUE,
                   required |-> TRUE, default |-> DateNow, set |-> DateNow]
                  @@ type
        ELSE LET label == getLabel(p)
                 defaultValue == extractDefaultValue(p.defaultValue)
                 validateFn ==
                    buildValidationFunction(getValidationConstraints(p), p.name)
             IN  (IF validateFn.defined THEN [validate |-> validateFn]
                  ELSE NoDecorators)
                 @@ (IF p.defaultValue.valueKind # "None"
                        /\ defaultValue.t # "undefined"
                     THEN [default |-> defaultValue] ELSE NoDecorators)
                 @@ (IF label # "" THEN [label |-> label] ELSE NoDecorators)
                 @@ [required |-> ~p.optional]
                 @@ type

(***************************************************************************)
(* Bounded universe of entity properties.                                  *)
(***************************************************************************)
UuidType ==
    Scalar(<<ScalarLevel("UUID", [minLength |-> UuidLength,
                                  maxLength |-> UuidLength]),
             ScalarLevel("string", NoDecorators)>>)
NonLiteralUnion == Union(<<StringLiteral("home"), Int32Type>>)
AddressType ==
    Record("Address",
           <<ModelProperty("street", UuidType, FALSE, NoDefault, NoDecorators)>>,
           NoType)

AttributeTypes ==
    {StringType, UuidType, Int32Type, BytesType,
     ScalarNamed(<<"boolean">>), ScalarNamed(<<"numeric">>),
     ScalarNamed(<<"float64", "float", "numeric">>),
     ScalarNamed(<<"Stamp", "utcDateTime">>), ScalarNamed(<<"plainDate">>),
     ScalarNamed(<<"plainTime">>), ScalarNamed(<<"offsetDateTime">>),
     CountryCode, Union(<<StringLiteral("home"), NumericLiteral(1)>>),
     NonLiteralUnion, ArrayOf(CountryCode), ArrayOf(StringType), AddressType,
     OtherKind("Tuple")}

DefaultValues ==
    {NoDefault, StringValue("none"), StringValue(""), NumericValue(0),
     BooleanValue(FALSE), EnumValue(Member("NL", Undefined)),
     EnumValue(Member("MEDIUM", Str("02"))), EnumValue(Member("HIGH", Num(3))),
     ObjectValue}

MarkerSets ==
    {a @@ b @@ c @@ d :
        a \in Choice("updatedAt", {"uat"}),
        b \in Choice("createdAt", {"cat"}),
        c \in Choice("label", {"", "fn"}),
        d \in Choice("minLength", {1})
              \cup Choice("pattern", {<<>>, DigitsPattern})}

MarkedProperties ==
    {ModelProperty("pk", t, o, d, m) :
        t \in AttributeTypes, o \in BOOLEAN, d \in DefaultValues,
        m \in MarkerSets}

\* the value the facet `key` is given at level `level` of a property: the
\* property itself is level 0, the scalar of its type level 1, its base 2, ...
FacetValue(key, level) ==
    CASE key = "minLength" -> level
      [] key = "maxLength" -> 10 + level
      [] key = "minValue" -> level
      [] key = "maxValue" -> 10 + level
      [] key = "pattern" -> Repeat("a", level + 1)
      [] OTHER -> <<"uuid", "email", "uri", "ipv4", "ipv6", "date">>[level + 1]

\* the sets of facets one level may declare
DeclaredKeySets ==
    {{}, FacetKeys, {"minLength", "maxLength"}, {"minValue", "maxValue"},
     {"minLength", "pattern"}, {"maxLength", "pattern"}}
    \cup {{k} : k \in FacetKeys}

FacetSets(level) ==
    {[k \in K |-> FacetValue(k, level)] : K \in DeclaredKeySets}

ChainNames == <<"UUID", "String64", "Text", "Name">>

RECURSIVE FacetChains(_, _)
\* the chains of n levels, the first of them level `level`, that end in string
FacetChains(level, n) ==
    IF n = 1
    THEN {<<ScalarLevel("string", f)>> : f \in FacetSets(level)}
    ELSE {<<ScalarLevel(ChainNames[level], f)>> \o rest :
            f \in FacetSets(level), rest \in FacetChains(level + 1, n - 1)}

FacetedProperties ==
    {ModelProperty("pk", Scalar(chain), FALSE, NoDefault, f) :
        chain \in UNION {FacetChains(1, n) : n \in 1..MaxFacetLevels},
        f \in FacetSets(0)}

Properties == MarkedProperties \cup FacetedProperties

(***************************************************************************)
(* Specification of the attribute composer: any property of an entity is   *)
(* composed, or its constraints are resolved.                              *)
(***************************************************************************)
InitAttribute ==
    /\ pc = "start"
    /\ prop \in Properties
    /\ attr = Nil /\ constraints = Nil
    /\ propertyName = "" /\ validate = Nil /\ value = Nil /\ outcome = Nil
    /\ inType = Nil /\ out = Nil
    /\ IndexIdle /\ StringifyIdle /\ EmitIdle /\ WalkIdle

EmitAttribute ==
    /\ pc = "start"
    /\ prop # Nil
    /\ attr' = emitAttribute(prop)
    /\ pc' = "emitted"
    /\ UNCHANGED <<inType, out, prop, constraints, propertyName, validate,
                   value, outcome>>
    /\ UNCHANGED <<indexVars, stringifyVars, emitVars, walkVars>>

GetValidationConstraints ==
    /\ pc = "start"
    /\ prop # Nil
    /\ constraints' = getValidationConstraints(prop)
    /\ pc' = "resolved"
    /\ UNCHANGED <<inType, out, prop, attr, propertyName, validate, value,
                   outcome>>
    /\ UNCHANGED <<indexVars, stringifyVars, emitVars, walkVars>>

NextAttribute == EmitAttribute \/ GetValidationConstraints

SpecAttribute == InitAttribute /\ [][NextAttribute]_vars

(***************************************************************************)
(* The @index decorator: an access pattern, given as a model literal, is   *)
(* normalised into a descriptor and stored under its name in the state map *)
(* entry of the target model.                                              *)
(***************************************************************************)
Tuple(values) == [kind |-> "Tuple", values |-> values]
\* a reference to the property `name` owned by the model `model`
PropertyRef(model, name) ==
    [kind |-> "ModelProperty", name |-> name, model |-> model]
EnumMember(name) == [kind |-> "EnumMember", name |-> name]
ModelLiteral(properties) == Record("", properties, NoType)
LiteralProperty(name, type) ==
    ModelProperty(name, type, FALSE, NoDefault, NoDecorators)

\* a string or undefined
NoString == [defined |-> FALSE, s |-> ""]
SomeString(s) == [defined |-> TRUE, s |-> s]
\* a string as the list of its non-empty pieces, so that `${a}${b}` is \o
Text(s) == IF s = "" THEN <<>> ELSE <<s>>
NoText == [defined |-> FALSE, text |-> <<>>]
SomeText(t) == [defined |-> TRUE, text |-> t]

First(found) == CHOOSE i \in found : \A j \in found : i <= j

\* faulty variant of extractFieldNames: the owner of a value is not looked at
extractFieldNames_AnyOwner(target, tuple) ==
    IF \E i \in DOMAIN tuple.values : tuple.values[i].kind # "ModelProperty"
    THEN [ok |-> FALSE, values |-> <<>>]
    ELSE [ok |-> TRUE,
          values |-> [i \in DOMAIN tuple.values |-> tuple.values[i].name]]

\* the names of the values of a tuple; the assertion fails (ok = FALSE) on a
\* value that is not a property of the target
extractFieldNames(target, tuple) ==
    IF \E i \in DOMAIN tuple.values :
          ~(/\ tuple.values[i].kind = "ModelProperty"
            /\ tuple.values[i].model = target)
    THEN [ok |-> FALSE, values |-> <<>>]
    ELSE [ok |-> TRUE,
          values |-> [i \in DOMAIN tuple.values |-> tuple.values[i].name]]

getProperty(model, name) ==
    LET props == walkPropertiesInherited(model)
        found == {i \in DOMAIN props : props[i].name = name}
    IN  IF found = {} THEN NoType ELSE props[First(found)].type

getStringValue(model, name) ==
    LET props == walkPropertiesInherited(model)
        found == {i \in DOMAIN props :
                     props[i].name = name /\ props[i].type.kind = "String"}
    IN  IF found = {} THEN NoString
        ELSE SomeString(props[First(found)].type.value.s)

KeyOf(field, names) ==
    [ok |-> names.ok, field |-> field, composite |-> names.values]

\* faulty variant of normalizeKey: the field of a shorthand key is the key name alone
normalizeKey_NoIndexPrefix(keyName, target, pattern) ==
    LET key == getProperty(pattern, keyName)
        field == getStringValue(key, "field")
        composite == getProperty(key, "composite")
        none == [ok |-> TRUE, values |-> <<>>]
    IN  IF key.kind = "Tuple"
        THEN KeyOf(SomeText(Text(keyName)), extractFieldNames(target, key))
        ELSE IF key.kind = "Model"
        THEN KeyOf(IF field.defined THEN SomeText(Text(field.s)) ELSE NoText,
                   IF composite.kind = "Tuple"
                   THEN extractFieldNames(target, composite) ELSE none)
        ELSE KeyOf(SomeText(Text(keyName)), none)

normalizeKey(keyName, target, pattern) ==
    LET key == getProperty(pattern, keyName)
        index == getStringValue(pattern, "index")
        prefix == IF index.defined THEN index.s ELSE ""
        field == getStringValue(key, "field")
        composite == getProperty(key, "composite")
        none == [ok |-> TRUE, values |-> <<>>]
    IN  IF key.kind = "Tuple"
        THEN KeyOf(SomeText(Text(prefix) \o Text(keyName)),
                   extractFieldNames(target, key))
        ELSE IF key.kind = "Model"
        THEN KeyOf(IF field.defined THEN SomeText(Text(field.s)) ELSE NoText,
                   IF composite.kind = "Tuple"
                   THEN extractFieldNames(target, composite) ELSE none)
        ELSE KeyOf(SomeText(Text(prefix) \o Text(keyName)), none)

OptionalKeys == <<"index", "collection", "type", "scope">>

\* the descriptor built by $index, or a failed assertion
accessPattern(target, pattern) ==
    LET pk == normalizeKey("pk", target, pattern)
        sk == normalizeKey("sk", target, pattern)
        truthy == {OptionalKeys[i] : i \in
                      {j \in DOMAIN OptionalKeys :
                          LET v == getStringValue(pattern, OptionalKeys[j])
                          IN  v.defined /\ v.s # ""}}
    IN  IF ~pk.ok \/ ~sk.ok
        THEN Throw("Access patterns must use properties from the model")
        ELSE [k \in truthy |-> getStringValue(pattern, k).s]
             @@ [pk |-> [field |-> pk.field, composite |-> pk.composite],
                 sk |-> [field |-> sk.field, composite |-> sk.composite]]

\* faulty variant of indexDecorator: the table of the target is begun anew
indexDecorator_FreshTable(state, target, name, pattern) ==
    LET descriptor == accessPattern(target, pattern)
    IN  IF IsThrow(descriptor)
        THEN [ok |-> FALSE, state |-> state]
        ELSE [ok |-> TRUE,
              state |-> [state EXCEPT ![target] =
                            ObjSet(<<>>, name, descriptor)]]

\* $index(context, target, patternName, pattern) on the state map `state`
indexDecorator(state, target, name, pattern) ==
    LET descriptor == accessPattern(target, pattern)
    IN  IF IsThrow(descriptor)
        THEN [ok |-> FALSE, state |-> state]
        ELSE [ok |-> TRUE,
              state |-> [state EXCEPT ![target] =
                            ObjSet(state[target], name, descriptor)]]

(***************************************************************************)
(* The models, names and access patterns the decorator is applied to.      *)
(***************************************************************************)
MaxApplications == 2

IndexTargets == {"Person", "Job"}
IndexNames(t) == IF t = "Person" THEN {"jobs", "byName"} ELSE {"jobs"}
OtherTarget(t) == IF t = "Person" THEN "Job" ELSE "Person"
IdOf(t) == IF t = "Person" THEN "personId" ELSE "jobId"
OwnProperties(t) == {"pk", IdOf(t)}

Own(t) == PropertyRef(t, "pk")
OwnId(t) == PropertyRef(t, IdOf(t))
\* properties of the other model: one with a name the target has too
Foreign(t) == PropertyRef(OtherTarget(t), "pk")
ForeignId(t) == PropertyRef(OtherTarget(t), IdOf(OtherTarget(t)))

Optional(name, type) ==
    IF type = NoType THEN <<>> ELSE <<LiteralProperty(name, type)>>

\* the forms of a key: absent, shorthand lists (of own properties, with a
\* property of another model, with a value that is no property) and the
\* full form (with and without field, with and without composite)
KeyForms(t, k) ==
    { NoType,
      Tuple(<<>>),
      Tuple(<<Own(t)>>),
      Tuple(<<OwnId(t), Own(t)>>),
      Tuple(<<Foreign(t)>>),
      Tuple(<<Own(t), StringLiteral("pk")>>),
      ModelLiteral(<<LiteralProperty("field", StringLiteral(k)),
                     LiteralProperty("composite", Tuple(<<Own(t)>>))>>),
      ModelLiteral(<<LiteralProperty("composite", Tuple(<<OwnId(t)>>))>>),
      ModelLiteral(<<LiteralProperty("field", StringLiteral(k))>>),
      ModelLiteral(<<LiteralProperty("field", StringLiteral(k)),
                     LiteralProperty("composite", Tuple(<<ForeignId(t)>>))>>) }

\* index, collection, type and scope in the forms AccessPattern declares
OptionalForms ==
    { <<NoType, StringLiteral("jobs"), NoType, NoType>>,
      <<NoType, Tuple(<<StringLiteral("jobs"), StringLiteral("people")>>),
        NoType, NoType>>,
      <<NoType, NoType, EnumMember("clustered"), NoType>>,
      <<NoType, NoType, NoType, StringLiteral("org")>>,
      <<NoType, NoType, NoType, StringLiteral("")>>,
      <<StringLiteral(""), StringLiteral("jobs"), NoType, NoType>>,
      <<StringLiteral("gsi1"), StringLiteral("jobs"), EnumMember("isolated"),
        StringLiteral("org")>> }

Pattern(index, collection, type, scope, pk, sk) ==
    ModelLiteral(Optional("index", index) \o Optional("collection", collection)
                 \o Optional("type", type) \o Optional("scope", scope)
                 \o Optional("pk", pk) \o Optional("sk", sk))

\* the access patterns applied to Person; Job gets the key forms without an
\* index name and one pattern with both keys
Patterns(t) ==
    { Pattern(index, NoType, NoType, NoType, pk, NoType) :
         index \in (IF t = "Person" THEN {NoType, StringLiteral("gsi1")}
                    ELSE {NoType}),
         pk \in KeyForms(t, "pk") }
    \union { Pattern(StringLiteral("gsi1"), NoType, NoType, NoType,
                     Tuple(<<Own(t)>>), Tuple(<<OwnId(t)>>)) }
    \union { Pattern(o[1], o[2], o[3], o[4], Tuple(<<Own(t)>>), NoType) :
                o \in (IF t = "Person" THEN OptionalForms ELSE {}) }
    \union { Pattern(NoType, NoType, NoType, NoType, Tuple(<<Own(t)>>), sk) :
                sk \in (IF t = "Person" THEN KeyForms(t, "sk") ELSE {}) }

(***************************************************************************)
(* SpecIndex: @index is applied to models, one application at a time.      *)
(***************************************************************************)
EmitterIdle == inType = Nil /\ out = Nil /\ Idle
emitterVars == <<inType, out, prop, attr, constraints, propertyName,
                 validate, value, outcome>>

InitIndex ==
    /\ pc = "index"
    /\ indexes = [t \in IndexTargets |-> <<>>]
    /\ lastIndex = [count |-> 0, target |-> "", name |-> "",
                    pattern |-> ModelLiteral(<<>>), failed |-> FALSE]
    /\ EmitterIdle /\ StringifyIdle /\ EmitIdle /\ WalkIdle

Index ==
    /\ pc = "index"
    /\ lastIndex.count < MaxApplications
    /\ \E target \in IndexTargets :
         \E name \in IndexNames(target), pattern \in Patterns(target) :
            LET result == indexDecorator(indexes, target, name, pattern)
            IN  /\ indexes' = result.state
                /\ lastIndex' = [count |-> lastIndex.count + 1,
                                 target |-> target, name |-> name,
                                 pattern |-> pattern, failed |-> ~result.ok]
    /\ UNCHANGED <<pc, emitterVars, stringifyVars, emitVars, walkVars>>

NextIndex == Index

SpecIndex == InitIndex /\ [][NextIndex]_vars

(***************************************************************************)
(* The serializer (stringify.ts): a value tree is rendered as the text of  *)
(* a literal expression.  A text is the list of its pieces: a punctuation  *)
(* mark, a character that matters inside a string literal, or a run of     *)
(* ordinary characters.  White space between tokens is left out.           *)
(***************************************************************************)
Quote == "\""
Backslash == "\\"
LineFeed == "\n"
Punctuation == {Quote, Backslash, LineFeed, "{", "}", "[", "]", ":", ",", "-"}
DigitPieces == {NumberToString(n) : n \in 0..9}
\* the source text of a function, kept as one piece
ValidateSource == "(value) => { ... }"
FunctionSources == {ValidateSource, "() => Date.now()"}
\* the first and the last piece of the call written for a non-literal union
RawCodeOpen == "CustomAttributeType<"
RawCodeClose == ">(\"any\")"

\* a JavaScript value: typeof, and the fields the kinds of values use
JValue(typeof) ==
    [typeof |-> typeof, isArray |-> FALSE, isNull |-> FALSE, isRawCode |-> FALSE,
     s |-> <<>>, n |-> 0, b |-> FALSE, items |-> <<>>, entries |-> <<>>]
JUndefined == JValue("undefined")
JString(pieces) == [JValue("string") EXCEPT !.s = pieces]
JNumber(n) == [JValue("number") EXCEPT !.n = n]
JBoolean(b) == [JValue("boolean") EXCEPT !.b = b]
JFunction(src) == [JValue("function") EXCEPT !.s = <<src>>]
JNull == [JValue("object") EXCEPT !.isNull = TRUE]
JArray(items) == [JValue("object") EXCEPT !.isArray = TRUE, !.items = items]
\* a plain record, its entries [key, value] in the order of insertion
JObject(entries) == [JValue("object") EXCEPT !.entries = entries]
Entry(key, v) == [key |-> key, value |-> v]
\* new RawCode(code): an object that stands for the text `code`
RawCode(code) == [JValue("object") EXCEPT !.isRawCode = TRUE, !.s = code]

Rendered(text) == [ok |-> TRUE, text |-> text, error |-> ""]
Failed(msg) == [ok |-> FALSE, text |-> <<>>, error |-> msg]

(* parseExpression of @babel/parser, for the literal expressions the       *)
(* serializer writes: the syntax tree, members in textual order, or a      *)
(* syntax error.                                                           *)
Parsed(v, next) == [ok |-> TRUE, node |-> v, next |-> next]
SyntaxError == [ok |-> FALSE, node |-> JUndefined, next |-> 0]

\* the character an escape sequence \p stands for
Escape(p) == IF p = "n" THEN LineFeed ELSE p

RECURSIVE ScanString(_, _, _)
\* the rest of a string literal whose opening quote has been read
ScanString(t, i, acc) ==
    IF i > Len(t) \/ t[i] = LineFeed THEN SyntaxError
    ELSE IF t[i] = Quote THEN Parsed(JString(acc), i + 1)
    ELSE IF t[i] = Backslash
    THEN IF i + 1 > Len(t) THEN SyntaxError
         ELSE IF t[i + 1] = LineFeed THEN ScanString(t, i + 2, acc)
         ELSE ScanString(t, i + 2, Append(acc, Escape(t[i + 1])))
    ELSE ScanString(t, i + 1, Append(acc, t[i]))

IsIdentifier(p) == p \notin Punctuation /\ p \notin DigitPieces
                   /\ p \notin FunctionSources
DigitsValue(p) == CHOOSE n \in 0..9 : NumberToString(n) = p

RECURSIVE ParseValue(_, _), ParseElements(_, _, _), ParseMembers(_, _, _)
RECURSIVE AfterElement(_, _, _), AfterKey(_, _, _, _), AfterMember(_, _, _, _)

ParseValue(t, i) ==
    IF i > Len(t) THEN SyntaxError
    ELSE IF t[i] = Quote THEN ScanString(t, i + 1, <<>>)
    ELSE IF t[i] = "[" THEN ParseElements(t, i + 1, <<>>)
    ELSE IF t[i] = "{" THEN ParseMembers(t, i + 1, <<>>)
    ELSE IF t[i] = "-"
    THEN IF i + 1 <= Len(t) /\ t[i + 1] \in DigitPieces
         THEN Parsed(JNumber(0 - DigitsValue(t[i + 1])), i + 2)
         ELSE SyntaxError
    ELSE IF t[i] \in DigitPieces THEN Parsed(JNumber(DigitsValue(t[i])), i + 1)
    ELSE IF t[i] = "true" THEN Parsed(JBoolean(TRUE), i + 1)
    ELSE IF t[i] = "false" THEN Parsed(JBoolean(FALSE), i + 1)
    ELSE IF t[i] = "null" THEN Parsed(JNull, i + 1)
    ELSE IF t[i] = "undefined" THEN Parsed(JUndefined, i + 1)
    ELSE IF t[i] \in FunctionSources THEN Parsed(JFunction(t[i]), i + 1)
    ELSE IF t[i] = RawCodeOpen
    THEN LET closing == {j \in (i + 1)..Len(t) : t[j] = RawCodeClose}
         IN  IF closing = {} THEN SyntaxError
             ELSE Parsed(RawCode(SubSeq(t, i, First(closing))),
                         First(closing) + 1)
    ELSE SyntaxError

AfterElement(t, r, acc) ==
    IF ~r.ok \/ r.next > Len(t) THEN SyntaxError
    ELSE IF t[r.next] = "," THEN ParseElements(t, r.next + 1, Append(acc, r.node))
    ELSE IF t[r.next] = "]" THEN Parsed(JArray(Append(acc, r.node)), r.next + 1)
    ELSE SyntaxError

ParseElements(t, i, acc) ==
    IF i > Len(t) THEN SyntaxError
    ELSE IF t[i] = "]" THEN Parsed(JArray(acc), i + 1)
    ELSE AfterElement(t, ParseValue(t, i), acc)

AfterMember(t, key, r, acc) ==
    IF ~r.ok \/ r.next > Len(t) THEN SyntaxError
    ELSE IF t[r.next] = ","
    THEN ParseMembers(t, r.next + 1, Append(acc, Entry(key, r.node)))
    ELSE IF t[r.next] = "}"
    THEN Parsed(JObject(Append(acc, Entry(key, r.node))), r.next + 1)
    ELSE SyntaxError

\* the key has been read up to position i: a colon and a value follow
AfterKey(t, key, i, acc) ==
    IF i > Len(t) \/ t[i] # ":" THEN SyntaxError
    ELSE AfterMember(t, key, ParseValue(t, i + 1), acc)

ParseMembers(t, i, acc) ==
    IF i > Len(t) THEN SyntaxError
    ELSE IF t[i] = "}" THEN Parsed(JObject(acc), i + 1)
    ELSE IF t[i] = Quote
    THEN LET key == ScanString(t, i + 1, <<>>)
         IN  IF key.ok THEN AfterKey(t, key.node.s, key.next, acc)
             ELSE SyntaxError
    ELSE IF IsIdentifier(t[i]) \/ t[i] \in DigitPieces
    THEN AfterKey(t, <<t[i]>>, i + 1, acc)
    ELSE SyntaxError

parseExpression(t) ==
    LET r == ParseValue(t, 1)
    IN  IF r.ok /\ r.next = Len(t) + 1 THEN r ELSE SyntaxError

(* stringify.ts                                                            *)
IntegerKey(e) == Len(e.key) = 1 /\ e.key[1] \in DigitPieces

RECURSIVE Ascending(_)
\* entries with integer keys by ascending key
Ascending(es) ==
    IF es = {} THEN <<>>
    ELSE LET least == CHOOSE e \in es : \A f \in es :
                          DigitsValue(e.key[1]) <= DigitsValue(f.key[1])
         IN  <<least>> \o Ascending(es \ {least})

\* faulty variant of ObjectEntries: the entries in the order of insertion
ObjectEntries_Insertion(entries) ==
    entries

\* Object.entries(object): the integer keys in ascending order, then the
\* other keys in the order of insertion
ObjectEntries(entries) ==
    Ascending({entries[i] : i \in {j \in DOMAIN entries : IntegerKey(entries[j])}})
    \o SelectSeq(entries, LAMBDA e : ~IntegerKey(e))

\* value.toString() of a number
NumberText(n) ==
    IF n < 0 THEN <<"-", NumberToString(0 - n)>> ELSE <<NumberToString(n)>>

\* the first failure of a list of results or, without one, their texts
\* joined by commas between the brackets open and close
Bracketed(open, results, close) ==
    IF \E i \in DOMAIN results : ~results[i].ok
    THEN results[CHOOSE i \in DOMAIN results :
                    ~results[i].ok /\ \A j \in 1..(i - 1) : results[j].ok]
    ELSE Rendered(<<open>>
                  \o Join([i \in DOMAIN results |-> results[i].text], ",")
                  \o <<close>>)

\* a RawCode object is written as the text it stands for
stringifyRawCode(v) == Rendered(v.s)

RECURSIVE stringifyValue(_), stringifyArray(_), stringifyKeyValue(_, _)
RECURSIVE stringifyObject(_)

stringifyValue(v) ==
    CASE v.typeof = "undefined" -> Rendered(<<"undefined">>)
      [] v.typeof = "string" -> Rendered(<<Quote>> \o v.s \o <<Quote>>)
      [] v.typeof = "function" -> Rendered(v.s)
      [] v.typeof = "number" -> Rendered(NumberText(v.n))
      [] v.typeof = "boolean" -> Rendered(IF v.b THEN <<"true">> ELSE <<"false">>)
      [] v.typeof = "object" ->
            IF v.isRawCode THEN stringifyRawCode(v)
            ELSE IF v.isArray THEN stringifyArray(v)
            ELSE IF v.isNull THEN Rendered(<<"null">>)
            ELSE stringifyObject(v)
      [] OTHER -> Failed("Unsupported value type")

stringifyArray(v) ==
    Bracketed("[", [i \in DOMAIN v.items |-> stringifyValue(v.items[i])], "]")

\* the properties of the expression parsed from `{ key: value }`, as text
stringifyKeyValue(key, v) ==
    LET rendered == stringifyValue(v)
        member == key \o <<":">> \o rendered.text
    IN  IF ~rendered.ok THEN rendered
        ELSE IF parseExpression(<<"{">> \o member \o <<"}">>).ok
        THEN Rendered(member)
        ELSE Failed("SyntaxError")

stringifyObject(object) ==
    LET entries == ObjectEntries(object.entries)
    IN  Bracketed("{", [i \in DOMAIN entries |->
                          stringifyKeyValue(entries[i].key, entries[i].value)],
                  "}")

(***************************************************************************)
(* The value trees handed to the serializer.                               *)
(***************************************************************************)
MaxItems == 2

StringChars == {"a", "n", Quote, Backslash}
JStrings == {JString(s) : s \in SeqsUpTo(StringChars, MaxLen)}
Scalars ==
    JStrings \union {JNumber(n) : n \in (-1)..MaxNum}
    \union {JBoolean(TRUE), JBoolean(FALSE), JNull, JUndefined}
SmallValues == {JString(<<"a">>), JNumber(1), JBoolean(TRUE), JNull}
Keys == {<<"a">>, <<"b">>, <<"1">>, <<"2">>, <<"a", "-", "b">>}
KeyPairs == {ks \in Keys \X Keys : ks[1] # ks[2]}
Arrays ==
    {JArray(items) : items \in SeqsUpTo(SmallValues, MaxItems)}
    \union {JArray(<<s>>) : s \in JStrings}
InnerObjects ==
    {JObject(<<>>)}
    \union {JObject(<<Entry(k, v)>>) : k \in Keys, v \in SmallValues}
    \union {JObject(<<Entry(ks[1], JNumber(1)), Entry(ks[2], JNumber(2))>>) :
               ks \in KeyPairs}
Values ==
    Scalars \union Arrays \union InnerObjects
    \union {JArray(<<o, JNumber(1)>>) : o \in InnerObjects}
    \union {JFunction(src) : src \in FunctionSources}
    \union {JValue("bigint"), JArray(<<JValue("symbol")>>)}
Objects ==
    {JObject(<<>>)}
    \union {JObject(<<Entry(k, v)>>) : k \in Keys, v \in Values}
    \union {JObject(<<Entry(ks[1], v), Entry(ks[2], w)>>) :
               ks \in KeyPairs, v \in SmallValues, w \in SmallValues}

(***************************************************************************)
(* SpecStringify: stringifyObject on a value tree.                         *)
(***************************************************************************)
InitStringify ==
    /\ pc = "start"
    /\ input \in Objects
    /\ generated = Nil
    /\ EmitterIdle /\ IndexIdle /\ EmitIdle /\ WalkIdle

Stringify ==
    /\ pc = "start"
    /\ input # Nil
    /\ generated' = stringifyObject(input)
    /\ pc' = "stringified"
    /\ UNCHANGED <<input, emitterVars, indexVars, emitVars, walkVars>>

NextStringify == Stringify

SpecStringify == InitStringify /\ [][NextStringify]_vars

(***************************************************************************)
(* The objects of the emitter as values of the serializer.                 *)
(***************************************************************************)
AttributeKeys ==
    <<"type", "items", "properties", "watch", "readOnly", "required",
      "label", "default", "set", "validate">>

\* a string, number, boolean or function held by a descriptor
ScalarValue(v) ==
    CASE v.t = "string" -> JString(Text(v.s))
      [] v.t = "number" -> JNumber(v.n)
      [] v.t = "boolean" -> JBoolean(v.b)
      [] v.t = "function" -> JFunction(v.s)
      [] OTHER -> JUndefined

Strings(texts) == JArray([i \in DOMAIN texts |-> JString(Text(texts[i]))])

RECURSIVE AttributeValue(_)
\* the attribute descriptor as the object the serializer is given
AttributeValue(descriptor) ==
    LET present == SelectSeq(AttributeKeys, LAMBDA k : k \in DOMAIN descriptor)
        field(k) ==
            CASE k = "type" ->
                    IF descriptor.type.k = "name" THEN JString(descriptor.type.v)
                    ELSE IF descriptor.type.k = "enum" THEN Strings(descriptor.type.v)
                    ELSE RawCode(descriptor.type.v)
              [] k = "items" ->
                    IF descriptor.type = TName("set") THEN Strings(descriptor.items)
                    ELSE AttributeValue(descriptor.items)
              [] k = "properties" ->
                    JObject([i \in DOMAIN descriptor.properties |->
                                Entry(<<descriptor.properties[i].name>>,
                                      AttributeValue(descriptor.properties[i].attr))])
              [] k \in {"required", "readOnly"} -> JBoolean(descriptor[k])
              [] k = "watch" -> JString(<<descriptor.watch>>)
              [] k = "label" -> JString(Text(descriptor.label))
              [] k = "validate" -> JFunction(ValidateSource)
              [] OTHER -> ScalarValue(descriptor[k])
    IN  JObject([i \in DOMAIN present |-> Entry(<<present[i]>>, field(present[i]))])

\* a key of an index descriptor
KeyValue(key) ==
    JObject(<<Entry(<<"field">>, IF key.field.defined THEN JString(key.field.text)
                                 ELSE JUndefined),
              Entry(<<"composite">>, Strings(key.composite))>>)

\* the state of the @index decorator for a model
IndexesValue(table) ==
    JObject([i \in DOMAIN table |->
        LET d == table[i].attr
            optional == SelectSeq(OptionalKeys, LAMBDA k : k \in DOMAIN d)
        IN  Entry(<<table[i].name>>,
                  JObject(<<Entry(<<"pk">>, KeyValue(d.pk)),
                            Entry(<<"sk">>, KeyValue(d.sk))>>
                          \o [j \in DOMAIN optional |->
                                Entry(<<optional[j]>>, JString(Text(d[optional[j]])))]))])

\* a schema { attributes, indexes, model }
SchemaValue(schema) ==
    JObject(<<Entry(<<"attributes">>,
                    JObject([i \in DOMAIN schema.attributes |->
                                Entry(<<schema.attributes[i].name>>,
                                      AttributeValue(schema.attributes[i].attr))])),
              Entry(<<"indexes">>, IndexesValue(schema.indexes)),
              Entry(<<"model">>,
                    JObject(<<Entry(<<"entity">>, JString(Text(schema.model.entity))),
                              Entry(<<"service">>, JString(Text(schema.model.service))),
                              Entry(<<"version">>, ScalarValue(schema.model.version))>>))>>)

(***************************************************************************)
(* $onEmit: every model that carries entity metadata is checked and mapped *)
(* to a schema, the schemas are serialized into one source document, and   *)
(* the document is emitted as three files.                                 *)
(***************************************************************************)
RECURSIVE emitEntityLoop(_, _)
\* the loop of emitEntity over the remaining properties
emitEntityLoop(props, entity) ==
    IF props = <<>> THEN [entity |-> entity]
    ELSE LET a == emitAttribute(Head(props))
         IN  IF IsThrow(a) THEN a
             ELSE emitEntityLoop(Tail(props), ObjSet(entity, Head(props).name, a))

\* faulty variant of emitEntity: the properties of the base models are composed too
emitEntity_Inherited(model) ==
    emitEntityLoop(walkPropertiesInherited(model), <<>>)

emitEntity(model) ==
    emitEntityLoop(model.properties, <<>>)

\* stateMap(StateKeys.index).get(model): the table stored for this very node
stateMapGet(state, model) ==
    LET at == {i \in DOMAIN state : state[i].model = model}
    IN  IF at = {} THEN [defined |-> FALSE, table |-> <<>>]
        ELSE [defined |-> TRUE, table |-> state[First(at)].table]

\* faulty variant of emitSchema: the version is taken as stored, and the
\* index table of the first model of the state map is attached
emitSchema_AsStored(entry) ==
    IF entry.model.kind # "Model" THEN Throw("Type must be a model")
    ELSE LET attributes == emitEntity(entry.model)
         IN  IF IsThrow(attributes) THEN attributes
             ELSE [attributes |-> attributes.entity,
                   indexes |-> IF entry.indexes = <<>> THEN <<>>
                               ELSE entry.indexes[1].table,
                   model |-> [entity |-> entry.props.entity,
                              service |-> entry.props.service,
                              version |-> entry.props.version]]

\* the body of the loop of $onEmit for one entry of the entity state map:
\* the model, the properties stored by @entity, and the @index state map
emitSchema(entry) ==
    IF entry.model.kind # "Model" THEN Throw("Type must be a model")
    ELSE LET attributes == emitEntity(entry.model)
         IN  IF IsThrow(attributes) THEN attributes
             ELSE [attributes |-> attributes.entity,
                   indexes |-> LET found == stateMapGet(entry.indexes, entry.model)
                               IN  IF found.defined THEN found.table ELSE <<>>,
                   model |-> [entity |-> entry.props.entity,
                              service |-> entry.props.service,
                              version |-> Coalesce(entry.props.version, Str("1"))]]

Definition(name, text) == <<"export const ", name, " = ">> \o text \o <<" as const">>

\* faulty variant of entityDefinitions: a schema the serializer fails on is left out
entityDefinitions_SkipFailed(schemas) ==
    LET kept == SelectSeq(schemas, LAMBDA e : stringifyObject(SchemaValue(e.attr)).ok)
    IN  Rendered(Join([i \in DOMAIN kept |->
                          Definition(kept[i].name,
                                     stringifyObject(SchemaValue(kept[i].attr)).text)],
                      LineFeed))

\* one definition per entry of entities, joined by line feeds
entityDefinitions(schemas) ==
    LET results == [i \in DOMAIN schemas |-> stringifyObject(SchemaValue(schemas[i].attr))]
    IN  IF \E i \in DOMAIN results : ~results[i].ok
        THEN results[First({i \in DOMAIN results : ~results[i].ok})]
        ELSE Rendered(Join([i \in DOMAIN schemas |->
                              Definition(schemas[i].name, results[i].text)],
                           LineFeed))

\* the pieces of text that hold the characters CustomAttributeType
HoldsCustomAttributeType ==
    {"CustomAttributeType", RawCodeOpen, "CustomAttributeTypes"}
\* text.includes("CustomAttributeType")
includesCustomAttributeType(text) ==
    \E i \in DOMAIN text : text[i] \in HoldsCustomAttributeType

ImportLine == <<"import { ", "CustomAttributeType", " } from \"electrodb\";", LineFeed, LineFeed>>

\* imports + entityDefinitions
typescriptSourceOf(definitions) ==
    (IF includesCustomAttributeType(definitions) THEN ImportLine ELSE <<>>)
    \o definitions

FileNames == <<"index.d.ts", "index.js", "package.json">>

(***************************************************************************)
(* The annotated models of a compilation.                                  *)
(***************************************************************************)
MaxEntities == 2

PkProperty == ModelProperty("pk", StringType, FALSE, NoDefault, NoDecorators)
ContactProperty ==
    ModelProperty("contact", NonLiteralUnion, TRUE, NoDefault, NoDecorators)

\* a second property: with a custom type (directly, in a record, in a list),
\* with the text CustomAttributeType in a default or a label, with a
\* validator, with timestamps, properties on which a step fails, and a
\* property whose name is an integer
SecondProperties ==
    { ContactProperty,
      ModelProperty("address",
                    Record("Address", <<ContactProperty>>, NoType),
                    FALSE, NoDefault, NoDecorators),
      ModelProperty("contacts", ArrayOf(NonLiteralUnion), FALSE, NoDefault,
                    NoDecorators),
      ModelProperty("note", StringType, TRUE,
                    StringValue("CustomAttributeType"), NoDecorators),
      ModelProperty("kind", StringType, FALSE, NoDefault,
                    [label |-> "CustomAttributeType"]),
      ModelProperty("id", UuidType, FALSE, NoDefault, NoDecorators),
      ModelProperty("updatedAt", Int32Type, FALSE, NoDefault,
                    [updatedAt |-> "uat"]),
      ModelProperty("createdAt", StringType, FALSE, NoDefault,
                    [createdAt |-> "cat"]),
      ModelProperty("blob", OtherKind("Intrinsic"), FALSE, NoDefault,
                    NoDecorators),
      ModelProperty("quote", StringType, TRUE, StringValue(Quote),
                    NoDecorators),
      ModelProperty("1", StringType, FALSE, NoDefault, NoDecorators) }

\* the arguments of @entity as the decorator stores them
entityDecorator(entity, service, version) ==
    [entity |-> entity.value.s, service |-> service.value.s,
     version |-> IF version = NoType THEN Undefined ELSE version.value]
\* the arguments of an @entity annotation
EntityArgs(entity, service, version) ==
    [entity |-> StringLiteral(entity), service |-> StringLiteral(service),
     version |-> version]
\* an entry of the entity state map, with the annotation it comes from and
\* the @index state map of the program
Annotated(model, given, state) ==
    [model |-> model, given |-> given,
     props |-> entityDecorator(given.entity, given.service, given.version),
     indexes |-> state]
\* the @index state map with a table stored for one model
IndexedBy(model, table) == <<[model |-> model, table |-> table]>>

\* the index state of Person after @index("jobs", ...)
JobsIndex ==
    indexDecorator([t \in IndexTargets |-> <<>>], "Person", "jobs",
                   Pattern(StringLiteral("gsi1"), StringLiteral("jobs"),
                           NoType, NoType, Tuple(<<Own("Person")>>),
                           Tuple(<<OwnId("Person")>>))).state["Person"]

\* a base model with a property and an index of its own
PartyModel ==
    Record("Party",
           <<ModelProperty("name", StringType, FALSE, NoDefault, NoDecorators)>>,
           NoType)
\* a property whose type is a record with a base model
LocationProperty ==
    ModelProperty("location",
                  Record("Location",
                         <<ModelProperty("street", StringType, FALSE, NoDefault,
                                         NoDecorators)>>,
                         BaseModel),
                  FALSE, NoDefault, NoDecorators)

\* models named Person of two namespaces, a model Job, a model whose name
\* holds the text CustomAttributeType, models that extend a base model, and
\* a node that is no model
EntityPool ==
    { Annotated(Record("Person", <<PkProperty, p>>, NoType),
                EntityArgs("person", "hr", NoType), <<>>) :
         p \in SecondProperties }
    \union
    { Annotated(Record("Person", <<PkProperty>>, NoType),
                EntityArgs("person", "hr", NoType),
                IndexedBy(Record("Person", <<PkProperty>>, NoType), JobsIndex)),
      Annotated(Record("Person", <<PkProperty>>, NoType),
                EntityArgs("visitor", "ops", StringLiteral("2")), <<>>),
      Annotated(Record("Job", <<PkProperty>>, NoType),
                EntityArgs("job", "hr", NoType), <<>>),
      Annotated(Record("Job", <<PkProperty, ContactProperty>>, NoType),
                EntityArgs("job", "hr", StringLiteral("2")), <<>>),
      Annotated(Record("Employee", <<PkProperty>>, PartyModel),
                EntityArgs("employee", "hr", NoType),
                IndexedBy(PartyModel, JobsIndex)),
      Annotated(Record("Employee", <<PkProperty, LocationProperty>>, PartyModel),
                EntityArgs("employee", "hr", NoType), <<>>),
      Annotated(Record("CustomAttributeTypes", <<PkProperty>>, NoType),
                EntityArgs("types", "hr", NoType), <<>>),
      Annotated(StringType, EntityArgs("text", "hr", NoType), <<>>) }

(***************************************************************************)
(* SpecEmit: one compilation pass of $onEmit.                              *)
(***************************************************************************)
InitEmit ==
    /\ pc = "entities"
    /\ program \in SeqsUpTo(EntityPool, MaxEntities)
    /\ cursor = 1
    /\ entities = <<>>
    /\ typescriptSource = <<>>
    /\ files = <<>>
    /\ emitError = Nil
    /\ EmitterIdle /\ IndexIdle /\ StringifyIdle /\ WalkIdle

\* one iteration of the loop over the entity state map
EmitEntity ==
    /\ pc = "entities"
    /\ cursor <= Len(program)
    /\ LET schema == emitSchema(program[cursor])
       IN  IF IsThrow(schema)
           THEN /\ pc' = "aborted"
                /\ emitError' = schema
                /\ UNCHANGED <<cursor, entities>>
           ELSE /\ entities' = ObjSet(entities, program[cursor].model.name, schema)
                /\ cursor' = cursor + 1
                /\ UNCHANGED <<pc, emitError>>
    /\ UNCHANGED <<program, typescriptSource, files>>
    /\ UNCHANGED <<emitterVars, indexVars, stringifyVars, walkVars>>

\* the source document is built from the schemas
Serialize ==
    /\ pc = "entities"
    /\ cursor > Len(program)
    /\ LET definitions == entityDefinitions(entities)
       IN  IF ~definitions.ok
           THEN /\ pc' = "aborted"
                /\ emitError' = Throw(definitions.error)
                /\ UNCHANGED typescriptSource
           ELSE /\ pc' = "serialized"
                /\ typescriptSource' = typescriptSourceOf(definitions.text)
                /\ UNCHANGED emitError
    /\ UNCHANGED <<program, cursor, entities, files>>
    /\ UNCHANGED <<emitterVars, indexVars, stringifyVars, walkVars>>

\* the next of the three emitFile calls
EmitFile ==
    /\ pc = "serialized"
    /\ Len(files) < Len(FileNames)
    /\ files' = Append(files, FileNames[Len(files) + 1])
    /\ pc' = IF Len(files) + 1 = Len(FileNames) THEN "done" ELSE pc
    /\ UNCHANGED <<program, cursor, entities, typescriptSource, emitError>>
    /\ UNCHANGED <<emitterVars, indexVars, stringifyVars, walkVars>>

NextEmit == EmitEntity \/ Serialize \/ EmitFile

SpecEmit == InitEmit /\ [][NextEmit]_vars

(***************************************************************************)
(* The walks of emitType and getValidationConstraints over a model graph   *)
(* held by reference: a scalar refers to its baseScalar, a model to the    *)
(* type of its property, directly, as the element of an array or as a      *)
(* variant of a union.  Nothing keeps the references from forming a cycle. *)
(* A frame is a call of emitType or of emitTypeToTypeScript; the `while`   *)
(* loops over baseScalar run within one frame.                             *)
(***************************************************************************)
MaxStack == 4

NodeNames == {"A", "B", "C"}
NoNode == "none"
ScalarNode(base) == [kind |-> "Scalar", ref |-> base, via |-> "baseScalar"]
ModelNode(type, via) == [kind |-> "Model", ref |-> type, via |-> via]
NodeShapes ==
    {ScalarNode(r) : r \in NodeNames \cup {NoNode}}
    \cup {ModelNode(NoNode, "property")}
    \cup {ModelNode(r, v) : r \in NodeNames, v \in {"property", "array", "union"}}
\* the base of a scalar is a scalar
Graphs ==
    {g \in [NodeNames -> NodeShapes] :
        \A n \in NodeNames :
            (g[n].kind = "Scalar" /\ g[n].ref # NoNode) => g[g[n].ref].kind = "Scalar"}

Frame(node) == [node |-> node, visited |-> FALSE]
Top == frames[Len(frames)]
TopNode == graph[Top.node]

InitWalk ==
    /\ pc = "walking"
    /\ graph \in Graphs
    /\ operation \in {"emitType", "getValidationConstraints"}
    /\ \E n \in NodeNames : frames = <<Frame(n)>>
    /\ EmitterIdle /\ IndexIdle /\ StringifyIdle /\ EmitIdle

\* baseType = baseType.baseScalar, scalarType = scalarType.baseScalar
WalkBaseScalar ==
    /\ pc = "walking" /\ frames # <<>>
    /\ TopNode.kind = "Scalar" /\ TopNode.ref # NoNode
    /\ frames' = [frames EXCEPT ![Len(frames)].node = TopNode.ref]
    /\ UNCHANGED <<pc, graph, operation>>
    /\ UNCHANGED <<emitterVars, indexVars, stringifyVars, emitVars>>

\* the type of the property of a model is not yet mapped
Pending ==
    /\ operation = "emitType"
    /\ TopNode.kind = "Model" /\ TopNode.ref # NoNode /\ ~Top.visited

\* emitRecordModel -> emitModelProperty -> emitType, also through
\* emitArrayModel, and emitUnion -> emitTypeToTypeScript -> itself
Descend ==
    /\ pc = "walking" /\ frames # <<>>
    /\ Pending /\ Len(frames) < MaxStack
    /\ frames' = Append([frames EXCEPT ![Len(frames)].visited = TRUE],
                        Frame(TopNode.ref))
    /\ UNCHANGED <<pc, graph, operation>>
    /\ UNCHANGED <<emitterVars, indexVars, stringifyVars, emitVars>>

\* RangeError: Maximum call stack size exceeded
StackOverflow ==
    /\ pc = "walking" /\ frames # <<>>
    /\ Pending /\ Len(frames) = MaxStack
    /\ pc' = "overflow"
    /\ UNCHANGED <<graph, operation, frames>>
    /\ UNCHANGED <<emitterVars, indexVars, stringifyVars, emitVars>>

\* the call on top returns: the root of a scalar was reached, or the
\* property of the model is mapped; getValidationConstraints does not look
\* into a model
Return ==
    /\ pc = "walking" /\ frames # <<>>
    /\ \/ TopNode.kind = "Scalar" /\ TopNode.ref = NoNode
       \/ TopNode.kind = "Model" /\ ~Pending
    /\ frames' = SubSeq(frames, 1, Len(frames) - 1)
    /\ pc' = IF Len(frames) = 1 THEN "returned" ELSE pc
    /\ UNCHANGED <<graph, operation>>
    /\ UNCHANGED <<emitterVars, indexVars, stringifyVars, emitVars>>

NextWalk == WalkBaseScalar \/ Descend \/ StackOverflow \/ Return

\* the emitter is one thread that runs each call to its end
SpecWalk == InitWalk /\ [][NextWalk]_vars /\ WF_vars(NextWalk)

(***************************************************************************)
(* Properties of the type mapper (SpecMap).                                *)
(***************************************************************************)
NumericFamily ==
    {"numeric", "integer", "float"}
    \cup {"int8", "int16", "int32", "int64"}
    \cup {"uint8", "uint16", "uint32", "uint64"}
    \cup {"safeint", "float32", "float64", "decimal", "decimal128"}

RootNameOf(type) == type.chain[Len(type.chain)].name

\* the text of member m in an enum-like list: its literal value, a number
\* rendered as text, or its declared name when it has no value
MemberText(m) ==
    IF m.value.t = "undefined" THEN m.name
    ELSE IF m.value.t = "string" THEN m.value.s
    ELSE NumberToString(m.value.n)

IsArrayType(type) == type.kind = "Model" /\ type.name = "Array" /\ type.indexer # Nil

\* C1: the type of a scalar depends only on the name of the root of its
\* derivation chain: boolean gives "boolean", the numeric family "number",
\* bytes an error and every other root "string"; so a scalar maps as its root
\* does, however many levels lie between them.
C1_ScalarTypeFromRoot ==
    (pc = "mapped" /\ inType.kind = "Scalar") =>
        LET root == RootNameOf(inType)
        IN  /\ root = "boolean" => out = [type |-> TName("boolean")]
            /\ root \in NumericFamily => out = [type |-> TName("number")]
            /\ root = "bytes" => IsThrow(out)
            /\ root \notin NumericFamily \cup {"boolean", "bytes"} =>
                    out = [type |-> TName("string")]
            /\ out = emitType(ScalarNamed(<<root>>))

\* a scalar named boolean derived, through a further level, from int8 is a number
W1_DerivedScalarMapped ==
    /\ pc = "mapped" /\ inType.kind = "Scalar"
    /\ Len(inType.chain) >= 3
    /\ inType.chain[1].name = "boolean"
    /\ inType.chain[2].name = "bytes"
    /\ RootNameOf(inType) = "int8"
    /\ out = [type |-> TName("number")]

\* C2: an array of an Enum maps to a "set" whose items are the members' literal
\* values, or names, in declaration order; an array of anything else maps to
\* a "list" whose items is the mapped element type.
C2_ArraySetOrList ==
    (pc = "mapped" /\ IsArrayType(inType)) =>
        LET element == inType.indexer.value
        IN  IF element.kind = "Enum"
            THEN /\ DOMAIN out = {"type", "items"}
                 /\ out.type = TName("set")
                 /\ Len(out.items) = Len(element.members)
                 /\ \A i \in DOMAIN element.members :
                        out.items[i] = MemberText(element.members[i])
            ELSE IF IsThrow(emitType(element)) THEN IsThrow(out)
            ELSE /\ DOMAIN out = {"type", "items"}
                 /\ out.type = TName("list")
                 /\ out.items = emitType(element)

\* an array of an enum with a valued and a valueless member became a set
W2_EnumArrayMapped ==
    /\ pc = "mapped" /\ IsArrayType(inType)
    /\ inType.indexer.value.kind = "Enum"
    /\ Len(inType.indexer.value.members) >= 2
    /\ \E i \in DOMAIN inType.indexer.value.members :
          inType.indexer.value.members[i].value.t # "undefined"
    /\ ~IsThrow(out) /\ out.type = TName("set")

\* C3: the type of an Enum of n members is a list of n strings, the i-th one
\* being member i's literal value or, without one, its name.
C3_EnumMembersInOrder ==
    (pc = "mapped" /\ inType.kind = "Enum") =>
        /\ DOMAIN out = {"type"}
        /\ out.type.k = "enum"
        /\ Len(out.type.v) = Len(inType.members)
        /\ \A i \in DOMAIN inType.members :
              out.type.v[i] = MemberText(inType.members[i])

\* an enum of three members, with and without literal values, was mapped
W3_EnumMapped ==
    /\ pc = "mapped" /\ inType.kind = "Enum"
    /\ Len(inType.members) = 3
    /\ inType.members[1].value.t = "string"
    /\ inType.members[2].value.t = "undefined"
    /\ ~IsThrow(out) /\ Len(out.type.v) = 3

IsLiteral(type) == type.kind \in {"String", "Number"}
LiteralText(type) ==
    IF type.kind = "String" THEN type.value.s ELSE NumberToString(type.value.n)

CheckOrder ==
    <<"minLength", "maxLength", "minValue", "maxValue", "integer", "finite",
      "pattern", "dateTime">>

IsString(v) == v.typeof = "string"
IsNumber(v) == v.typeof = "number"

\* v < n and v > n on numbers; every comparison with NaN is false
Below(v, n) == v.cls = "-Infinity" \/ (v.cls = "finite" /\ v.twice < 2 * n)
Above(v, n) == v.cls = "Infinity" \/ (v.cls = "finite" /\ v.twice > 2 * n)

DateTimeFails(kind, v) ==
    CASE kind \in {"utcDateTime", "offsetDateTime"} -> ~v.validDate
      [] kind = "plainDate" -> ~TestPlainDate(v.text)
      [] kind = "plainTime" -> ~TestPlainTime(v.text)
      [] OTHER -> FALSE

\* check number k of the fixed order applies to the constraint set c and is
\* violated by the value v
Violated(k, c, v) ==
    CASE k = 1 -> Has(c, "minLength") /\ IsString(v) /\ Len(v.text) < c.minLength
      [] k = 2 -> Has(c, "maxLength") /\ IsString(v) /\ Len(v.text) > c.maxLength
      [] k = 3 -> Has(c, "minValue") /\ IsNumber(v) /\ Below(v, c.minValue)
      [] k = 4 -> Has(c, "maxValue") /\ IsNumber(v) /\ Above(v, c.maxValue)
      [] k = 5 -> Has(c, "isInteger") /\ IsNumber(v)
                  /\ ~(v.cls = "finite" /\ v.twice % 2 = 0)
      [] k = 6 -> Has(c, "isFloat") /\ IsNumber(v) /\ v.cls # "finite"
      [] k = 7 -> Has(c, "pattern") /\ c.pattern # <<>> /\ IsString(v)
                  /\ ~RegExpTest(c.pattern, v.text)
      [] k = 8 -> Has(c, "isDateTime") /\ IsString(v)
                  /\ DateTimeFails(c.dateTimeType, v)

\* the message of check number k
MessageOf(k, c, name) ==
    CASE k = 1 -> Message(name, "must be at least N characters", c.minLength, <<>>)
      [] k = 2 -> Message(name, "must be at most N characters", c.maxLength, <<>>)
      [] k = 3 -> Message(name, "must be at least N", c.minValue, <<>>)
      [] k = 4 -> Message(name, "must be at most N", c.maxValue, <<>>)
      [] k = 5 -> Message(name, "must be an integer", 0, <<>>)
      [] k = 6 -> Message(name, "must be a finite number", 0, <<>>)
      [] k = 7 -> Message(name, "must match pattern P", 0, c.pattern)
      [] k = 8 ->
            Message(name,
                    CASE c.dateTimeType = "utcDateTime" ->
                            "must be a valid UTC date-time string"
                      [] c.dateTimeType = "offsetDateTime" ->
                            "must be a valid offset date-time string"
                      [] c.dateTimeType = "plainDate" ->
                            "must be a valid date (YYYY-MM-DD)"
                      [] OTHER -> "must be a valid time (HH:MM:SS)",
                    0, <<>>)

ViolatedChecks(c, v) == {k \in DOMAIN CheckOrder : Violated(k, c, v)}
FirstViolated(c, v) ==
    CHOOSE k \in ViolatedChecks(c, v) : \A j \in ViolatedChecks(c, v) : k <= j

\* C5: the predicate reports the failure of the first violated check in the
\* fixed order and of no later one, and nothing when no check is violated; a
\* value that is neither a string nor a number always succeeds.
C5_FirstViolatedCheckReported ==
    (pc = "called") =>
        /\ IF ViolatedChecks(constraints, value) = {}
           THEN outcome.message = NoMessage /\ outcome.result = "true"
           ELSE outcome.message =
                    MessageOf(FirstViolated(constraints, value), constraints,
                              propertyName)
        /\ value.typeof \notin {"string", "number"} =>
                outcome = Outcome("return", "true", NoMessage)

\* a string that is too short, too long and does not match the pattern was
\* reported as too short
W5_SeveralChecksViolated ==
    /\ pc = "called"
    /\ Cardinality(ViolatedChecks(constraints, value)) >= 3
    /\ {1, 2, 7} \subseteq ViolatedChecks(constraints, value)
    /\ outcome.message.text = "must be at least N characters"

LengthMessages == {"must be at least N characters", "must be at most N characters"}
BoundMessages == {"must be at least N", "must be at most N"}

\* value/2 compared with the integer bound, for a number that is not NaN
AtLeast(v, n) == v.cls = "Infinity" \/ (v.cls = "finite" /\ v.twice >= 2 * n)
AtMost(v, n) == v.cls = "-Infinity" \/ (v.cls = "finite" /\ v.twice <= 2 * n)

IsTimestamp(p) == stateMapHas("updatedAt", p) \/ stateMapHas("createdAt", p)

\* one of the eight checks applies to the constraint set
Applicable(c) ==
    \/ Has(c, "minLength") \/ Has(c, "maxLength")
    \/ Has(c, "minValue") \/ Has(c, "maxValue")
    \/ (Has(c, "isInteger") /\ c.isInteger)
    \/ (Has(c, "isFloat") /\ c.isFloat)
    \/ (Has(c, "pattern") /\ c.pattern # <<>>)
    \/ (Has(c, "isDateTime") /\ c.isDateTime
            /\ Has(c, "dateTimeType") /\ c.dateTimeType \in DateTimeNames)

IsLiteralUnionType(type) ==
    type.kind = "Union" /\ \A i \in DOMAIN type.variants : IsLiteral(type.variants[i])
IsEnumArray(type) == IsArrayType(type) /\ type.indexer.value.kind = "Enum"
IsPlainScalar(type) ==
    /\ type.kind = "Scalar"
    /\ \A i \in DOMAIN type.chain :
          /\ type.chain[i].name \in {"string", "boolean"}
          /\ type.chain[i].decorators = NoDecorators

ClaimedFacets == {"minLength", "maxLength", "minValue", "maxValue", "pattern"}

\* the levels that declare the facet k, the property being level 0 and the
\* scalar at position i of the chain level i
DeclaringLevels(p, k) ==
    (IF k \in DOMAIN p.decorators THEN {0} ELSE {})
    \cup (IF p.type.kind = "Scalar"
          THEN {i \in DOMAIN p.type.chain : k \in DOMAIN p.type.chain[i].decorators}
          ELSE {})
NearestLevel(p, k) ==
    CHOOSE i \in DeclaringLevels(p, k) : \A j \in DeclaringLevels(p, k) : i <= j
DeclaredAt(p, k, level) ==
    IF level = 0 THEN p.decorators[k] ELSE p.type.chain[level].decorators[k]

\* C9: each of minLength, maxLength, minValue, maxValue and pattern resolves
\* to the value declared on the property, else to the one declared on the
\* nearest scalar of the chain, else it is unset; each facet on its own.
C9_NearestFacetWins ==
    (pc = "resolved") =>
        \A k \in ClaimedFacets :
            IF DeclaringLevels(prop, k) = {}
            THEN k \notin DOMAIN constraints
            ELSE /\ k \in DOMAIN constraints
                 /\ constraints[k] = DeclaredAt(prop, k, NearestLevel(prop, k))

\* minLength came from the base scalar while the nearer scalar and the root
\* side declare other values, and pattern from the property
W9_InheritedFacetResolved ==
    /\ pc = "resolved" /\ prop.type.kind = "Scalar"
    /\ Len(prop.type.chain) >= 2
    /\ DeclaringLevels(prop, "minLength") = {2}
    /\ DeclaringLevels(prop, "maxLength") = {1, 2}
    /\ DeclaringLevels(prop, "pattern") = {0, 1}
    /\ constraints.minLength = FacetValue("minLength", 2)
    /\ constraints.maxLength = FacetValue("maxLength", 1)
    /\ constraints.pattern = FacetValue("pattern", 0)

ExpectedDefault(d) ==
    CASE d.valueKind \in {"StringValue", "NumericValue", "BooleanValue"} -> d.value
      [] d.valueKind = "EnumValue" ->
            IF d.member.value.t = "undefined" THEN Str(d.member.name)
            ELSE d.member.value
      [] OTHER -> Undefined

\* C12: a non-timestamp property gets `default` equal to its declared string,
\* number or boolean default (the falsy "", 0 and false included) or to the
\* enum member's literal value or name; a structured default gives no
\* `default` key and no error; without a declared default there is no key.
C12_DeclaredDefault ==
    (pc = "emitted" /\ ~IsTimestamp(prop)) =>
        /\ IsThrow(attr) <=> IsThrow(emitType(prop.type))
        /\ ~IsThrow(attr) =>
              IF ExpectedDefault(prop.defaultValue) = Undefined
              THEN "default" \notin DOMAIN attr
              ELSE /\ "default" \in DOMAIN attr
                   /\ attr.default = ExpectedDefault(prop.defaultValue)

\* a declared default of 0 was kept
W12_FalsyDefaultKept ==
    /\ pc = "emitted" /\ ~IsTimestamp(prop) /\ ~IsThrow(attr)
    /\ prop.defaultValue = NumericValue(0)
    /\ "default" \in DOMAIN attr /\ attr.default = Num(0)

(***************************************************************************)
(* Properties of the @index decorator (SpecIndex).                         *)
(***************************************************************************)
Applied == pc = "index" /\ lastIndex.count > 0
\* the property of the applied access pattern called k, NoType without one
Given(k) ==
    LET props == lastIndex.pattern.properties
    IN  IF \E i \in DOMAIN props : props[i].name = k
        THEN (CHOOSE q \in {props[i] : i \in DOMAIN props} : q.name = k).type
        ELSE NoType
\* the descriptor in the table under the applied name
HasStored ==
    \E i \in DOMAIN indexes[lastIndex.target] :
        indexes[lastIndex.target][i].name = lastIndex.name
Stored ==
    LET entries == indexes[lastIndex.target]
    IN  entries[CHOOSE i \in DOMAIN entries :
                    entries[i].name = lastIndex.name].attr
IndexName == IF Given("index").kind = "String" THEN Given("index").value.s ELSE ""
Prefixed(k) == IF IndexName = "" THEN <<k>> ELSE <<IndexName, k>>

\* C13: a key given as a list of properties is stored with the field
\* <index name><key name> and the listed names in order; a key that is not
\* given is stored with the same field and an empty composite.
C13_ShorthandKey ==
    (Applied /\ ~lastIndex.failed) =>
        /\ HasStored
        /\ \A k \in {"pk", "sk"} :
              /\ Given(k).kind = "Tuple" =>
                    /\ Stored[k].field = SomeText(Prefixed(k))
                    /\ Len(Stored[k].composite) = Len(Given(k).values)
                    /\ \A i \in DOMAIN Given(k).values :
                          Stored[k].composite[i] = Given(k).values[i].name
              /\ Given(k) = NoType =>
                    /\ Stored[k].field = SomeText(Prefixed(k))
                    /\ Stored[k].composite = <<>>

\* index "gsi1" with a pk list and an sk list was stored
W13_Gsi1KeysStored ==
    /\ Applied /\ ~lastIndex.failed /\ HasStored
    /\ IndexName = "gsi1"
    /\ Given("pk").kind = "Tuple" /\ Given("sk").kind = "Tuple"
    /\ Stored.pk.field.text = <<"gsi1", "pk">>
    /\ Stored.sk.field.text = <<"gsi1", "sk">>
    /\ Stored.sk.composite = <<IdOf(lastIndex.target)>>

\* the composite list of key k of the applied pattern, in either form
CompositeGiven(k) ==
    IF Given(k).kind = "Tuple" THEN Given(k).values
    ELSE IF Given(k).kind = "Model" /\ getProperty(Given(k), "composite").kind = "Tuple"
    THEN getProperty(Given(k), "composite").values
    ELSE <<>>
OwnedBy(v, t) == v.kind = "ModelProperty" /\ v.model = t
BadComposite ==
    \E k \in {"pk", "sk"} : \E i \in DOMAIN CompositeGiven(k) :
        ~OwnedBy(CompositeGiven(k)[i], lastIndex.target)
CompositesOwned ==
    pc = "index" =>
        \A t \in IndexTargets : \A i \in DOMAIN indexes[t] :
            \A k \in {"pk", "sk"} :
                \A j \in DOMAIN indexes[t][i].attr[k].composite :
                    indexes[t][i].attr[k].composite[j] \in OwnProperties(t)

\* C14: every stored composite entry names a property of the model the index
\* is attached to; an application whose pk or sk composite holds anything but
\* a property owned by the target fails and leaves the table as it was.
C14_CompositeOwnedOrRejected ==
    /\ [](CompositesOwned /\ ((Applied /\ BadComposite) => lastIndex.failed))
    /\ [][(pc = "index" /\ lastIndex'.failed) => indexes' = indexes]_vars

\* an application with another model's property failed on a table that
\* already held a descriptor
W14_ForeignPropertyRejected ==
    /\ Applied /\ lastIndex.failed /\ BadComposite
    /\ \E k \in {"pk", "sk"} : \E i \in DOMAIN CompositeGiven(k) :
          /\ CompositeGiven(k)[i].kind = "ModelProperty"
          /\ CompositeGiven(k)[i].model # lastIndex.target
    /\ indexes[lastIndex.target] # <<>>
    /\ ~HasStored

\* C15: each of index, collection, type and scope is a key of the stored
\* descriptor exactly when the access pattern supplies it, in any form its
\* declaration allows, and then with the supplied value.
C15_OptionalKeysStored ==
    (Applied /\ ~lastIndex.failed) =>
        \A i \in DOMAIN OptionalKeys :
            LET k == OptionalKeys[i]
            IN  /\ (k \in DOMAIN Stored) <=> (Given(k) # NoType)
                /\ (k \in DOMAIN Stored /\ Given(k).kind = "String") =>
                      Stored[k] = Given(k).value.s

\* a collection given as a list of strings was applied and the stored
\* descriptor has no collection
W15_CollectionListDropped ==
    /\ Applied /\ ~lastIndex.failed /\ HasStored
    /\ Given("collection").kind = "Tuple"
    /\ "collection" \notin DOMAIN Stored

(***************************************************************************)
(* Properties of the serializer (SpecStringify).                           *)
(***************************************************************************)
IsPlainRecord(v) == v.typeof = "object" /\ ~v.isArray /\ ~v.isNull

RECURSIVE Serializable(_)
\* a tree of strings, numbers, booleans, null, arrays and plain records
Serializable(v) ==
    /\ v.typeof \in {"string", "number", "boolean", "object"}
    /\ \A i \in DOMAIN v.items : Serializable(v.items[i])
    /\ \A i \in DOMAIN v.entries : Serializable(v.entries[i].value)

RECURSIVE StructurallyEqual(_, _)
\* the same kind of value, the same elements, the same keys with the same
\* values, whatever the order of the keys
StructurallyEqual(a, b) ==
    /\ a.typeof = b.typeof /\ a.isArray = b.isArray /\ a.isNull = b.isNull
    /\ a.isRawCode = b.isRawCode /\ a.s = b.s /\ a.n = b.n /\ a.b = b.b
    /\ Len(a.items) = Len(b.items)
    /\ \A i \in DOMAIN a.items : StructurallyEqual(a.items[i], b.items[i])
    /\ Len(a.entries) = Len(b.entries)
    /\ \A i \in DOMAIN a.entries : \E j \in DOMAIN b.entries :
          /\ a.entries[i].key = b.entries[j].key
          /\ StructurallyEqual(a.entries[i].value, b.entries[j].value)
    /\ \A j \in DOMAIN b.entries : \E i \in DOMAIN a.entries :
          a.entries[i].key = b.entries[j].key

Reparsed == parseExpression(generated.text)

\* C16: the text written for a tree of strings, numbers, booleans, null,
\* arrays and plain records is a valid literal expression that evaluates to
\* a value structurally equal to the tree.
C16_RoundTrip ==
    (pc = "stringified" /\ Serializable(input)) =>
        /\ generated.ok
        /\ Reparsed.ok
        /\ StructurallyEqual(Reparsed.node, input)

\* a string with a backslash was written as a valid literal that evaluates
\* to another string
W16_StringChangedSilently ==
    /\ pc = "stringified" /\ Serializable(input)
    /\ generated.ok /\ Reparsed.ok
    /\ Len(input.entries) = 1
    /\ input.entries[1].value.typeof = "string"
    /\ Backslash \in {input.entries[1].value.s[i] :
                         i \in DOMAIN input.entries[1].value.s}
    /\ Reparsed.node.entries[1].value.s # input.entries[1].value.s

PositionOf(key, entries) ==
    CHOOSE i \in DOMAIN entries : entries[i].key = key
IsIntegerText(key) == Len(key) = 1 /\ key[1] \in DigitPieces
SameLeaf(a, b) ==
    /\ a.typeof = b.typeof /\ a.isArray = b.isArray /\ a.isNull = b.isNull
    /\ a.n = b.n /\ a.b = b.b

RECURSIVE InsertionOrderKept(_, _)
\* the members of every record of the text a are those of the tree b in the
\* order of insertion, the elements of every array in the order of the input
InsertionOrderKept(a, b) ==
    /\ SameLeaf(a, b)
    /\ Len(a.items) = Len(b.items)
    /\ \A i \in DOMAIN a.items : InsertionOrderKept(a.items[i], b.items[i])
    /\ Len(a.entries) = Len(b.entries)
    /\ \A i \in DOMAIN a.entries :
          /\ a.entries[i].key = b.entries[i].key
          /\ InsertionOrderKept(a.entries[i].value, b.entries[i].value)

RECURSIVE OwnKeyOrderKept(_, _)
\* as above, but the keys that are integers come first, in ascending order
OwnKeyOrderKept(a, b) ==
    /\ SameLeaf(a, b)
    /\ Len(a.items) = Len(b.items)
    /\ \A i \in DOMAIN a.items : OwnKeyOrderKept(a.items[i], b.items[i])
    /\ Len(a.entries) = Len(b.entries)
    /\ \A i \in DOMAIN a.entries :
          /\ \E j \in DOMAIN b.entries : b.entries[j].key = a.entries[i].key
          /\ OwnKeyOrderKept(a.entries[i].value,
                b.entries[PositionOf(a.entries[i].key, b.entries)].value)
    /\ \A i, j \in DOMAIN a.entries :
          i < j =>
            LET ki == a.entries[i].key
                kj == a.entries[j].key
            IN  /\ IsIntegerText(kj) => IsIntegerText(ki)
                /\ (IsIntegerText(ki) /\ IsIntegerText(kj)) =>
                      DigitsValue(ki[1]) < DigitsValue(kj[1])
                /\ (~IsIntegerText(ki) /\ ~IsIntegerText(kj)) =>
                      PositionOf(ki, b.entries) < PositionOf(kj, b.entries)

Emitted == pc \in {"serialized", "done"}
\* entity i is checked, mapped, composed and serialized without error
Succeeds(i) ==
    /\ ~IsThrow(emitSchema(program[i]))
    /\ stringifyObject(SchemaValue(emitSchema(program[i]))).ok
\* the errors of the steps that fail on the entities of the program
StepErrors ==
    {emitSchema(program[i]) :
        i \in {j \in DOMAIN program : IsThrow(emitSchema(program[j]))}}
    \union
    {Throw(stringifyObject(SchemaValue(emitSchema(program[i]))).error) :
        i \in {j \in DOMAIN program :
                  ~IsThrow(emitSchema(program[j])) /\ ~Succeeds(j)}}

\* C18 as stated: a file is written only when every annotated entity was
\* checked, mapped, composed and serialized without error; when a step fails
\* the pass stops with that error and no file has been written.
C18_NoFileUnlessAllSucceeded ==
    pc \in {"entities", "aborted", "serialized", "done"} =>
        /\ (files # <<>> \/ Emitted) => \A i \in DOMAIN program : Succeeds(i)
        /\ pc = "aborted" => (files = <<>> /\ emitError \in StepErrors)
        /\ pc # "aborted" => emitError = Nil
        /\ \A i \in 1..(cursor - 1) : ~IsThrow(emitSchema(program[i]))

\* every schema of the entity table is serialized without error
TableSerialized ==
    \A i \in DOMAIN entities : stringifyObject(SchemaValue(entities[i].attr)).ok

\* C18, for the steps the pass performs: a file is written only when the
\* check, the mapping and the composition of every annotated entity and the
\* serialization of every schema of the entity table were completed without
\* error; when a step fails the pass stops with that error and no file has
\* been written.
C18_FilesOnlyAfterEveryStep ==
    pc \in {"entities", "aborted", "serialized", "done"} =>
        /\ (files # <<>> \/ Emitted) =>
              /\ \A i \in DOMAIN program : ~IsThrow(emitSchema(program[i]))
              /\ TableSerialized
        /\ pc = "aborted" => (files = <<>> /\ emitError \in StepErrors)
        /\ pc # "aborted" => emitError = Nil
        /\ \A i \in 1..(cursor - 1) : ~IsThrow(emitSchema(program[i]))
        /\ (pc = "entities" /\ cursor > Len(program)) => files = <<>>

\* the pass stopped on the serializer after two entities had been mapped
W18_AbortedWithoutFiles ==
    /\ pc = "aborted" /\ Len(program) = 2 /\ cursor = 3
    /\ emitError = Throw("SyntaxError")
    /\ files = <<>>

\* the three files were written for a program with an entity whose schema
\* the serializer fails on
W18_FilesDespiteFailingEntity ==
    /\ pc = "done" /\ Len(files) = 3
    /\ \E i \in DOMAIN program :
          ~IsThrow(emitSchema(program[i])) /\ ~Succeeds(i)

IsInfix(a, t) ==
    \E k \in 0..(Len(t) - Len(a)) : SubSeq(t, k + 1, k + Len(a)) = a
Assignments == {i \in DOMAIN typescriptSource : typescriptSource[i] = "export const "}
OwnDefinition(i) ==
    Definition(program[i].model.name,
               stringifyObject(SchemaValue(emitSchema(program[i]))).text)

\* C19: the document holds one assignment per annotated entity, which binds
\* the entity's own schema to its name, also when two models have one name.
C19_OneAssignmentPerEntity ==
    Emitted =>
        /\ Cardinality(Assignments) = Len(program)
        /\ \A i \in DOMAIN program : IsInfix(OwnDefinition(i), typescriptSource)

\* two different models of one name were emitted as a single assignment
W19_SchemaReplaced ==
    /\ pc = "done" /\ Len(program) = 2
    /\ program[1].model.name = program[2].model.name
    /\ program[1] # program[2]
    /\ Cardinality(Assignments) = 1
    /\ ~IsInfix(OwnDefinition(1), typescriptSource)

RECURSIVE UsesCustomType(_)
\* the descriptor has the type made for a non-literal union, at any depth
UsesCustomType(descriptor) ==
    \/ descriptor.type.k = "raw"
    \/ /\ descriptor.type = TName("list")
       /\ UsesCustomType(descriptor.items)
    \/ /\ descriptor.type = TName("map")
       /\ \E i \in DOMAIN descriptor.properties :
             UsesCustomType(descriptor.properties[i].attr)
SomeAttributeUsesCustomType ==
    \E i \in DOMAIN entities : \E j \in DOMAIN entities[i].attr.attributes :
        UsesCustomType(entities[i].attr.attributes[j].attr)
BeginsWithImport ==
    typescriptSource # <<>> /\ typescriptSource[1] = "import { "

\* C20: the document begins with the import of CustomAttributeType exactly
\* when an attribute descriptor of some entity uses the custom type, whatever
\* the names, labels and default strings are.
C20_ImportIffCustomTypeUsed ==
    Emitted => (BeginsWithImport <=> SomeAttributeUsesCustomType)

\* a document without a custom type begins with the import
W20_ImportWithoutCustomType ==
    /\ pc = "done" /\ BeginsWithImport /\ ~SomeAttributeUsesCustomType

(***************************************************************************)
(* Properties of the schema assembly (SpecEmit).                           *)
(***************************************************************************)
\* the schema bound to a name in a table of entities
SchemaOf(table, name) ==
    table[First({i \in DOMAIN table : table[i].name = name})].attr
\* the index table declared on the model of an entry, if any
DeclaredIndexes(entry) ==
    {entry.indexes[i].table :
        i \in {j \in DOMAIN entry.indexes : entry.indexes[j].model = entry.model}}

\* C21: the schema assembled for an annotated entity has the model
\* { entity, service, version } with the entity and service given to @entity
\* and the given version, or "1" when none was given; its indexes are the
\* index table stored for the entity, or an empty table when none is stored.
C21_ModelAndIndexes ==
    [][(pc = "entities" /\ cursor' = cursor + 1) =>
          LET entry == program[cursor]
              schema == SchemaOf(entities', entry.model.name)
          IN  /\ schema.model =
                    [entity |-> entry.given.entity.value.s,
                     service |-> entry.given.service.value.s,
                     version |-> IF entry.given.version = NoType THEN Str("1")
                                 ELSE entry.given.version.value]
              /\ IF DeclaredIndexes(entry) = {} THEN schema.indexes = <<>>
                 ELSE schema.indexes \in DeclaredIndexes(entry)]_vars

\* an entity annotated without a version, with an index, has its schema
W21_DefaultVersionWithIndex ==
    /\ pc = "entities" /\ cursor = 2
    /\ program[1].given.version = NoType
    /\ DeclaredIndexes(program[1]) # {}
    /\ entities[1].attr.model.version = Str("1")
    /\ entities[1].attr.indexes # <<>>

(***************************************************************************)
(* Further properties of the attribute composer (SpecAttribute).           *)
(***************************************************************************)
\* the labels stored for a property by @createdAt and @updatedAt: the label
\* argument, or "cat" and "uat"
TimestampLabels(p) ==
    {p.decorators[k] : k \in {"createdAt", "updatedAt"} \cap DOMAIN p.decorators}

\* C22: the attribute composed for a @createdAt property carries the label
\* given to the annotation, or "cat"; the attribute composed for an
\* @updatedAt property carries its label, or "uat".
C22_TimestampLabel ==
    (pc = "emitted" /\ IsTimestamp(prop) /\ ~IsThrow(attr)) =>
        /\ "label" \in DOMAIN attr
        /\ attr.label \in TimestampLabels(prop)

\* a creation timestamp was composed without a label
W22_CreatedAtWithoutLabel ==
    /\ pc = "emitted" /\ stateMapHas("createdAt", prop)
    /\ ~stateMapHas("updatedAt", prop) /\ ~stateMapHas("label", prop)
    /\ prop.decorators.createdAt = "cat"
    /\ ~IsThrow(attr) /\ attr.readOnly
    /\ "label" \notin DOMAIN attr

(***************************************************************************)
(* Further properties of the type mapper (SpecMap).                        *)
(***************************************************************************)
RECURSIVE WellShaped(_)
\* the shape of a descriptor, at every depth: a list has items, a map has
\* properties, a set has a non-empty list of strings as items, and a list of
\* values as type is a non-empty list of strings
WellShaped(d) ==
    /\ d.type = TName("list") =>
            "items" \in DOMAIN d /\ WellShaped(d.items)
    /\ d.type = TName("map") =>
            /\ "properties" \in DOMAIN d
            /\ \A i \in DOMAIN d.properties : WellShaped(d.properties[i].attr)
    /\ d.type = TName("set") =>
            /\ "items" \in DOMAIN d
            /\ d.items # <<>>
            /\ \A i \in DOMAIN d.items : d.items[i] \in STRING
    /\ d.type.k = "enum" =>
            /\ d.type.v # <<>>
            /\ \A i \in DOMAIN d.type.v : d.type.v[i] \in STRING

\* C23: every descriptor produced by emitType is well shaped at every depth:
\* "list" has items, "map" has properties, "set" has a non-empty list of
\* strings as items, and an enum-like descriptor (of an Enum or of a literal
\* union) has a non-empty list of strings as its type.
C23_DescriptorShape ==
    (pc = "mapped" /\ ~IsThrow(out)) => WellShaped(out)

\* an enum without members was mapped to a descriptor with an empty type list
W23_EmptyEnumMapped ==
    /\ pc = "mapped" /\ inType = Enum(<<>>)
    /\ ~IsThrow(out) /\ out.type = TEnum(<<>>)

SupportedKinds == {"Scalar", "Model", "Enum", "Union"}
LiteralKinds == {"String", "Number"}

RECURSIVE HasOtherKind(_)
\* the type, or a type nested in it that must be translated (an array
\* element, the type of a record property, a union variant that is not a
\* literal), has a kind without a mapping rule
HasOtherKind(type) ==
    CASE type.kind \notin SupportedKinds -> TRUE
      [] type.kind = "Model" /\ type.name = "Array" ->
            type.indexer # Nil /\ HasOtherKind(type.indexer.value)
      [] type.kind = "Model" ->
            \E i \in DOMAIN walkPropertiesInherited(type) :
                HasOtherKind(walkPropertiesInherited(type)[i].type)
      [] type.kind = "Union" ->
            \E i \in DOMAIN type.variants :
                /\ type.variants[i].kind \notin LiteralKinds
                /\ HasOtherKind(type.variants[i])
      [] OTHER -> FALSE

\* C24: emitType fails whenever the type, or a nested type that must be
\* translated, has a kind other than scalar, record, array, enum or union;
\* no fallback descriptor or fallback textual type stands in for such a kind.
C24_OtherKindFails ==
    (pc = "mapped" /\ HasOtherKind(inType)) => IsThrow(out)

\* a union with a variant of another kind was mapped to the custom type
\* whose text holds "any" for that variant
W24_AnyForOtherKind ==
    /\ pc = "mapped"
    /\ inType = Union(<<StringType, OtherKind("Intrinsic")>>)
    /\ ~IsThrow(out)
    /\ out.type = TRaw(<<"CustomAttributeType<", "string", " | ", "any",
                         ">(\"any\")">>)

\* the descriptor bound to a name in a table of properties
DescriptorOf(table, name) ==
    table[First({i \in DOMAIN table : table[i].name = name})].attr
ComposerKeys == {"validate", "label", "watch", "readOnly", "set"}

\* C25: in a record mapped to a "map", the descriptor of a property is the
\* mapped type of the property with required = (not optional) and the
\* declared scalar default, if any; it has no validate, label, watch,
\* readOnly or set, whatever the property and its scalar type declare.
C25_NestedDescriptor ==
    (pc = "mapped" /\ inType.kind = "Model" /\ inType.name # "Array"
        /\ ~IsThrow(out)) =>
        /\ out.type = TName("map")
        /\ \A i \in DOMAIN walkPropertiesInherited(inType) :
              LET p == walkPropertiesInherited(inType)[i]
                  t == emitType(p.type)
                  a == DescriptorOf(out.properties, p.name)
                  d == ExpectedDefault(p.defaultValue)
              IN  /\ DOMAIN a = DOMAIN t \cup {"required"}
                          \cup (IF d = Undefined THEN {} ELSE {"default"})
                  /\ DOMAIN a \cap ComposerKeys = {}
                  /\ \A k \in DOMAIN t : a[k] = t[k]
                  /\ a.required = ~p.optional
                  /\ d # Undefined => a.default = d

\* a labelled String64 property with a length facet, nested in a record, was
\* mapped to { type "string", required true }
W25_NestedString64 ==
    /\ pc = "mapped" /\ inType.kind = "Model" /\ ~IsThrow(out)
    /\ \E i \in DOMAIN inType.properties :
          /\ inType.properties[i].type = String64
          /\ inType.properties[i].decorators = [label |-> "z", minLength |-> 1]
          /\ out.properties[i].attr = [type |-> TName("string"), required |-> TRUE]

Names(table) == [i \in DOMAIN table |-> table[i].name]
\* the index tables stored for the base models of a model
RECURSIVE InheritedIndexes(_, _)
InheritedIndexes(state, model) ==
    IF model.kind # "Model" \/ model.baseModel.kind # "Model" THEN {}
    ELSE {state[i].table :
            i \in {j \in DOMAIN state : state[j].model = model.baseModel}}
         \cup InheritedIndexes(state, model.baseModel)

\* the keys of a table in the order in which the emitted object lists them
EmittedKeys(table) ==
    LET listed == ObjectEntries([i \in DOMAIN table |->
                                    Entry(<<table[i].name>>, JUndefined)])
    IN  [i \in DOMAIN listed |-> listed[i].key[1]]
Range(names) == {names[i] : i \in DOMAIN names}
Place(names, name) == First({i \in DOMAIN names : names[i] = name})
\* the attributes are the own properties, the indexes those stored for the
\* model itself, and a record typed attribute has the own and the inherited
\* properties of the record
OwnPropertiesOnly(entry, schema) ==
    /\ Len(schema.attributes) = Len(entry.model.properties)
    /\ Range(Names(schema.attributes)) = Range(Names(entry.model.properties))
    /\ DeclaredIndexes(entry) = {} => schema.indexes = <<>>
    /\ \A i \in DOMAIN entry.model.properties :
          LET p == entry.model.properties[i]
              a == DescriptorOf(schema.attributes, p.name)
          IN  (p.type.kind = "Model" /\ p.type.name # "Array") =>
                  /\ a.type = TName("map")
                  /\ Names(a.properties) = Names(walkPropertiesInherited(p.type))

W26_IntegerNameFirst ==
    /\ pc = "entities" /\ cursor = 2
    /\ Names(program[1].model.properties) = <<"pk", "1">>
    /\ EmittedKeys(entities[1].attr.attributes) = <<"1", "pk">>

\* C27: with both timestamp markers the update rule alone is applied: watch
\* "*" and no readOnly; and with either marker the optional flag, the
\* declared default, the label and the constraints of the property
\* contribute nothing to the attribute.
C27_UpdateRuleFirst ==
    (pc = "emitted" /\ IsTimestamp(prop) /\ ~IsThrow(attr)) =>
        /\ (stateMapHas("updatedAt", prop) /\ stateMapHas("createdAt", prop)) =>
              /\ DOMAIN attr = {"type", "watch", "required", "default", "set"}
              /\ attr.watch = "*"
        /\ DOMAIN attr \cap {"label", "validate"} = {}
        /\ attr.required = TRUE
        /\ attr.default = DateNow
        /\ attr = emitAttribute([prop EXCEPT
                      !.optional = FALSE, !.defaultValue = NoDefault,
                      !.decorators = [k \in {"updatedAt", "createdAt"}
                                          \cap DOMAIN prop.decorators |->
                                        prop.decorators[k]]])

\* an optional property with both markers, a label, a pattern and a declared
\* default was composed by the update rule
W27_BothMarkers ==
    /\ pc = "emitted"
    /\ stateMapHas("updatedAt", prop) /\ stateMapHas("createdAt", prop)
    /\ stateMapHas("label", prop) /\ stateMapHas("pattern", prop)
    /\ prop.optional /\ prop.defaultValue.valueKind = "NumericValue"
    /\ ~IsThrow(attr) /\ attr.watch = "*" /\ "readOnly" \notin DOMAIN attr

(***************************************************************************)
(* Termination of the walks (SpecWalk).                                    *)
(***************************************************************************)
RECURSIVE ReachedIn(_, _)
\* the nodes referred to from the nodes of S in at most k steps
ReachedIn(S, k) ==
    IF k = 0 THEN {}
    ELSE LET next == {graph[n].ref : n \in S} \ {NoNode}
         IN  next \cup ReachedIn(next, k - 1)
OnCycle(n) == n \in ReachedIn({n}, Cardinality(NodeNames))
\* the walk that starts at the node on top reaches no cycle
NoCycleAhead ==
    /\ ~OnCycle(Top.node)
    /\ \A n \in ReachedIn({Top.node}, Cardinality(NodeNames)) : ~OnCycle(n)

\* C28: emitType and getValidationConstraints terminate on every finite model
\* graph, with a result or with an error: a scalar whose base relation has a
\* cycle is rejected instead of being walked forever, and a model that
\* refers to itself, through a property, an array or a union, does not make
\* the recursion unbounded.
C28_WalkTerminates ==
    /\ (pc = "walking") ~> (pc \in {"returned", "rejected"})
    /\ [](pc # "overflow")

\* the walk over a graph without a cycle ahead returns
AcyclicWalkReturns ==
    (pc = "walking" /\ frames # <<>> /\ Len(frames) = 1 /\ NoCycleAhead)
        ~> (pc = "returned")

\* a model that refers to itself through an array has used up the stack
W28_SelfReferenceOverflows ==
    /\ pc = "overflow" /\ operation = "emitType"
    /\ \E n \in NodeNames :
          /\ graph[n] = ModelNode(n, "array")
          /\ \A i \in DOMAIN frames : frames[i].node = n

(***************************************************************************)
(* The table of a target over several applications (SpecIndex).            *)
(***************************************************************************)
\* no table binds a name twice
NamesBoundOnce ==
    \A t \in DOMAIN indexes :
        \A i, j \in DOMAIN indexes[t] :
            indexes[t][i].name = indexes[t][j].name => i = j
\* the entries of a table under other names than n
Others(table, n) == {table[i] : i \in {j \in DOMAIN table : table[j].name # n}}

\* C29: after successful applications of @index the table of a target binds
\* each applied name once, to the descriptor of the latest application under
\* that name: an application binds its name to its descriptor, leaves the
\* entries under other names as they are, and leaves the tables of the other
\* targets as they are.
C29_LatestPerName ==
    /\ [](pc = "index" => NamesBoundOnce)
    /\ [][(pc = "index" /\ lastIndex'.count = lastIndex.count + 1
              /\ ~lastIndex'.failed) =>
            LET t == lastIndex'.target
                n == lastIndex'.name
            IN  /\ \A u \in IndexTargets \ {t} : indexes'[u] = indexes[u]
                /\ Others(indexes'[t], n) = Others(indexes[t], n)
                /\ {indexes'[t][i].attr :
                        i \in {j \in DOMAIN indexes'[t] : indexes'[t][j].name = n}}
                      = {accessPattern(t, lastIndex'.pattern)}
                /\ Range(Names(indexes'[t])) = Range(Names(indexes[t])) \cup {n}
           ]_vars

\* two names were applied to one target: both are bound, and the other
\* target has an empty table
W29_TwoNamesOnOneTarget ==
    /\ pc = "index" /\ lastIndex.count = 2 /\ ~lastIndex.failed
    /\ Range(Names(indexes["Person"])) = {"jobs", "byName"}
    /\ Len(indexes["Person"]) = 2
    /\ indexes["Job"] = <<>>

(***************************************************************************)
(* The date and time forms of the validator (SpecValidate).                *)
(***************************************************************************)
\* HH:MM, HH:MM:SS or HH:MM:SS.f..f
IsTimeForm(text) ==
    /\ Digits(text, 1, 2) /\ CharAt(text, 3, ":") /\ Digits(text, 4, 5)
    /\ \/ Len(text) = 5
       \/ /\ CharAt(text, 6, ":") /\ Digits(text, 7, 8)
          /\ \/ Len(text) = 8
             \/ /\ CharAt(text, 9, ".") /\ Len(text) >= 10
                /\ Digits(text, 10, Len(text))
\* YYYY-MM-DD
IsDateForm(text) ==
    /\ Len(text) = 10
    /\ \A i \in {1, 2, 3, 4, 6, 7, 9, 10} : IsDigit(text[i])
    /\ text[5] = "-" /\ text[8] = "-"
\* the date-time check is the only check on strings
DateTimeKind(kind) ==
    /\ Has(constraints, "isDateTime") /\ Has(constraints, "dateTimeType")
    /\ constraints.dateTimeType = kind
    /\ DOMAIN constraints \cap {"minLength", "maxLength", "pattern"} = {}
Accepted == outcome = Outcome("return", "true", NoMessage)
RejectedWith(text) == outcome.kind = "throw" /\ outcome.message.text = text

\* C30: the predicate of a plain-time property accepts a string iff it has
\* the form HH:MM, HH:MM:SS or HH:MM:SS.fff, a fraction being allowed only
\* after the seconds; that of a plain-date property accepts a string iff it
\* has the form YYYY-MM-DD; every other string is rejected with the message
\* of the kind.
C30_DateAndTimeForms ==
    (pc = "called" /\ IsString(value)) =>
        /\ DateTimeKind("plainTime") =>
              IF IsTimeForm(value.text) THEN Accepted
              ELSE RejectedWith("must be a valid time (HH:MM:SS)")
        /\ DateTimeKind("plainDate") =>
              IF IsDateForm(value.text) THEN Accepted
              ELSE RejectedWith("must be a valid date (YYYY-MM-DD)")

\* the plain-time predicate accepted 10:30.5, a fraction without seconds
W30_FractionWithoutSeconds ==
    /\ pc = "called" /\ IsString(value) /\ DateTimeKind("plainTime")
    /\ value.text = <<"1", "0", ":", "3", "0", ".", "5">>
    /\ Accepted

====
